---- MODULE Spec2Model ----
(***************************************************************************)
(* Terminal lifecycle and inter-terminal coordination engine of            *)
(* cli_agent_manager: the delegation handlers (handoff, assign,            *)
(* send-message) of api/main.py, the inbox queue they drive and the        *)
(* threads they share state with.                                          *)
(*                                                                         *)
(* Request handlers are coroutines of one event loop: between two awaits   *)
(* a handler owns the loop (variable loop) and no other handler runs.      *)
(* Executor workers, the inbox observer thread and the agent processes     *)
(* run in parallel with the loop.                                          *)
(***************************************************************************)
EXTENDS Integers, Sequences, FiniteSets, TLC

\* ---------------------------------------------------------------- bounds
MaxCalls == 1         \* delegation requests (handoff or assign) per run
MaxPolls == 2         \* status reads of one wait_until_terminal_status call
MaxMessages == 2      \* inbox messages created per run
MaxReceivers == 1     \* terminals that receive inbox messages
MaxPings == 1         \* health requests per run
MaxFlows == 2         \* flow definitions in the store
MaxTicks == 2         \* ticks of the flow daemon per run
MaxSenders == 2       \* terminal ids used as sender identities
MaxUnder == 2         \* `limit` inputs go down to 0 - MaxUnder
MaxOver == 50         \* `limit` inputs go up to MAX_LIMIT + MaxOver
MaxRows == 101        \* inbox rows of one receiver in the store
MaxTimeout == 5       \* timeouts of a wait, in seconds
MaxInterval == 2      \* polling intervals of a wait, in seconds
MaxJitter == 1        \* seconds by which a sleep may overrun
MaxLen == 1           \* length of the strings passed to a client call
MaxLines == 2         \* lines on the standard input of a stdio server

\* constants of the source
FLOW_PERIOD == 60     \* flow_daemon: await asyncio.sleep(60)
MIN_LIMIT == 1        \* get_inbox_messages_endpoint: max(1, limit)
MAX_LIMIT == 100      \* get_inbox_messages_endpoint: min(..., 100)

Calls == 1..MaxCalls
MaxTerminals == IF MaxCalls > MaxReceivers THEN MaxCalls ELSE MaxReceivers
TermIds == 1..MaxTerminals
None == 0             \* Python None for an Optional[TerminalId]

\* TerminalStatus (spec 4.1) plus "NONE" for an id not in the registry
Statuses == {"INITIALIZING", "IDLE", "BUSY", "COMPLETED", "ERROR"}

\* ------------------------------------------------------- message texts
FmtCreateTimeout == "Terminal creation timed out after 30 seconds"
FmtCreateFailed == "Failed to create terminal: {e}"
FmtIdleTimeout == "Terminal {terminal_id} did not reach IDLE status within 30 seconds"
FmtHandoffTimeout == "Handoff timed out after {timeout} seconds"
FmtHandoffOk == "Successfully handed off to {agent_profile} ({provider}) in {t}s"
FmtHandoffFailed == "Handoff failed: {e}"
FmtAssignTimeout == "Assignment timed out after 30 seconds during terminal creation"
FmtAssignOk == "Task assigned to {agent_profile} (terminal: {terminal_id})"
FmtAssignFailed == "Assignment failed: {e}"
FmtNoMessage == ""
FmtSessionStarted == "Session creation started. Terminal is initializing in the background."

\* an f-string: its format and the integer it interpolates
Msg(fmt, arg) == [fmt |-> fmt, arg |-> arg]

\* output of a handoff: None, the agent's last output, or the fallback text
OutNone == [kind |-> "none", tid |-> None]
OutLast(t) == [kind |-> "last", tid |-> t]
OutFailed == [kind |-> "Failed to retrieve output: {e}", tid |-> None]

\* text injected into a terminal
TaskText(c) == [kind |-> "task", ref |-> c]
InboxText(m) == [kind |-> "inbox", ref |-> m]

VARIABLES
    loop,        \* the coroutine that owns the event loop thread, 0 if none
    kind,        \* per call: "none" | "handoff" | "assign"
    pc,          \* per call: position of the handler
    terminal_id, \* per call: the handler's local terminal_id (None = 0)
    future,      \* per call: executor future of _create_terminal_direct
    created,     \* per call: id of the terminal the worker created, 0 if none
    polls,       \* per call: status reads made by the current wait
    output,      \* per call: the handler's local output
    response,    \* per call: the response returned
    stages,      \* per call: history of the stages executed, in order
    failed,      \* per call: history of the stages that failed
    status,      \* per terminal id: its status, "NONE" if not created
    inputs,      \* per terminal id: the texts injected so far, in order
    inbox,       \* the InboxMessage rows, in creation order (index = id)
    sm,          \* the send-message handler being served
    cad,         \* per invoker: its check_and_send_pending_messages call
    health,      \* number of /health requests answered
    teardown,    \* per call: a kill of the call's session was attempted
    daemon_task, \* the flow_daemon task created by lifespan
    lifespan,    \* position of the lifespan context manager
    environ,     \* per process: its TRON_TERMINAL_ID environment variable
    tool,        \* the send_message call of agent_tools/http_server.py
    query,       \* the get_inbox_messages_endpoint request being served
    cleanup,     \* the task that lifespan creates for cleanup_old_data
    inbox_observer, \* the PollingObserver that lifespan starts
    client,      \* the AgentCommunicationClient call in progress
    http,        \* the HTTP exchange of that call, and what the server did
    wait,        \* a wait_until_terminal_status call with its clock
    stdio,       \* a stdio tool server: its input, position and output
    tmux,        \* the multiplexer sessions, and each POST /sessions call's session
    log_events   \* terminals with a transition to IDLE that the watcher has not handled

delegVars == <<kind, pc, terminal_id, future, created, polls, output, response, stages, failed>>
termVars == <<status, inputs>>
inboxVars == <<inbox, sm, cad>>
flowVars == <<daemon_task, lifespan>>
senderVars == <<environ, tool>>
bootVars == <<cleanup, inbox_observer>>
clientVars == <<client, http>>
sideRest == <<bootVars, clientVars, wait, stdio>>
sideVars == <<sideRest, tmux, log_events>>
auxRest == <<health, teardown, flowVars, senderVars, query, sideRest>>
auxVars == <<health, teardown, flowVars, senderVars, query, sideVars>>
vars == <<loop, delegVars, termVars, inboxVars, auxVars>>

\* the two callers of check_and_send_pending_messages: the send-message
\* handler on the loop thread, and LogFileHandler on the observer thread
Invokers == {"request", "watcher"}
Receivers == 1..MaxReceivers
SendMessageLoop == 0 - 1     \* value of loop while send_message_to_agent runs

NoCall == [pc |-> "idle", receiver |-> None, picked |-> 0, sawIdle |-> FALSE,
           injected |-> 0, changed |-> {}]
NoRequest == [pc |-> "idle", n |-> 0, receiver |-> None, sender_id |-> None,
              message_id |-> 0, trace |-> <<>>, success |-> FALSE, returned |-> None]

HandoffResponse(s, m, o, t) == [success |-> s, message |-> m, output |-> o, terminal_id |-> t]
AssignResponse(s, t, m) == [success |-> s, message |-> m, output |-> OutNone, terminal_id |-> t]
NoResponse == [success |-> FALSE, message |-> Msg(FmtNoMessage, 0), output |-> OutNone, terminal_id |-> None]

\* --- flow daemon
Flows == 1..MaxFlows
DaemonLoop == 0 - 2          \* value of loop while flow_daemon runs a tick

\* the task as asyncio.create_task(flow_daemon()) leaves it; outcome, attempts,
\* fetch_failed and slept are the history of the current tick, prev_failed
\* tells whether something failed in the tick before
NewDaemon == [pc |-> "created", ticks |-> 0, flows |-> <<>>, todo |-> <<>>,
              outcome |-> [f \in Flows |-> "none"], attempts |-> [f \in Flows |-> 0],
              fetch_failed |-> FALSE, prev_failed |-> FALSE, slept |-> 0,
              cancel |-> FALSE]

\* --- sender identity
SenderIds == 1..MaxSenders
EmptyStr == 0 - 1            \* the empty string, falsy like None
Unknown == 0 - 2             \* the sentinel "unknown"
EnvValues == {None, EmptyStr} \cup SenderIds   \* os.getenv: None when unset
Processes == {"tools", "server"}
NoTool == [pc |-> "idle", receiver_id |-> None, sender_id |-> None,
           original_sender |-> None, request_sender |-> None, n0 |-> 0,
           success |-> FALSE]

\* --- inbox-messages query
Limits == (0 - MaxUnder)..(MAX_LIMIT + MaxOver)
\* the status query parameter: <<>> when absent, <<s>> when given as s
StatusParams == {<<>>, <<"">>, <<"all">>, <<"ALL">>, <<"pending">>, <<"Pending">>,
                 <<"delivered">>, <<"failed">>, <<"bogus">>}
\* the values of the MessageStatus enumeration
MessageStatus == {"pending", "delivered", "failed"}
HTTP_200_OK == 200
HTTP_202_ACCEPTED == 202
HTTP_400_BAD_REQUEST == 400
HTTP_404_NOT_FOUND == 404
HTTP_500_INTERNAL_SERVER_ERROR == 500
NoQuery == [pc |-> "idle", status |-> <<>>, limit |-> 0, rows |-> 0, used |-> 0,
            filter |-> <<>>, reads |-> 0, messages |-> <<>>, total |-> 0,
            http_status |-> 0, escaped |-> "none"]

\* --- startup
\* the cleanup task as lifespan leaves it: created once, not yet run
NewCleanup == [state |-> "created", started |-> 1]

\* --- a client call, a wait with its clock, a stdio server: none in progress
\* --- AgentCommunicationClient and its callers
Ops == {"handoff", "assign", "send_message"}
\* who calls: the async client method, the sync wrapper of agent_tools
\* (outside or inside a running event loop), or a bare HTTP client
Callers == {"client", "wrapper", "wrapper_in_loop", "raw"}
TIMEOUT_MIN == 1
TIMEOUT_MAX == 3600
TIMEOUT_DEFAULT == 600
TEST_TIMEOUT == 30
CLIENT_TIMEOUT == 30
CREATE_TIMEOUT == 30
IDLE_TIMEOUT == 30
SETTLE_DELAY == 2
OUTPUT_TIMEOUT == 10
EXIT_TIMEOUT == 5
HTTP_422_UNPROCESSABLE == 422
TimeoutInputs == {TIMEOUT_MIN - 1, TIMEOUT_MIN, TEST_TIMEOUT, TIMEOUT_DEFAULT,
                  TIMEOUT_MAX, TIMEOUT_MAX + 1}
FmtClientHttpError == "{op} failed: HTTP error - {e}"
FmtClientError == "{op} failed: {e}"
FmtSendFailed == "Failed to send message: {e}"
HTTPErrors == {"ConnectError", "ReadTimeout", "HTTPStatusError"}
Exceptions == HTTPErrors \cup {"ValidationError", "RuntimeError"}
NoReply == [kind |-> "none", status |-> 0, body |-> NoResponse]
NoClient == [pc |-> "idle", op |-> "handoff", via |-> "client", agent_profile |-> 0,
             message |-> 0, timeout |-> 0, requests |-> 0, result |-> NoResponse,
             raised |-> "none"]
NoHttp == [pc |-> "idle", op |-> "handoff", agent_profile |-> 0, message |-> 0, timeout |-> 0,
           reply |-> NoReply, duration |-> 0, handled |-> 0, created |-> 0, injected |-> 0]
NoWait == [pc |-> "idle", T |-> 0, I |-> 0, clock |-> 0, reads |-> 0, last_read |-> 0,
           min_gap |-> 0, seen_at |-> 0, result |-> "none"]
\* --- the stdio tool servers
\* HTTPAgentServer.run_stdio (cli_agent_orchestrator) and main()
\* (cli_agent_manager)
Servers == {"orchestrator", "manager"}
\* the lines a server can read: a line break only; text that is not JSON;
\* text on which json.loads raises something else than JSONDecodeError (an
\* array nested beyond the recursion limit, an integer beyond the digit
\* limit); JSON that is not an object; a request naming no known tool or
\* method; a known one without its required parameters; a complete request
LineKinds == {"blank", "invalid", "unparsable", "non_object", "unknown", "missing", "call"}
NoStdio == [pc |-> "idle", server |-> "manager", input |-> <<>>, pos |-> 0, out |-> <<>>,
            requests |-> 0, ended |-> "none"]

\* session names: the one a request can give, and the one that
\* generate_session_name yields for call c
GivenSession == 0 - 1
generate_session_name(c) == c
NoTmux == [sessions |-> {}, session_name |-> [c \in 1..MaxCalls |-> None],
           existed |-> [c \in 1..MaxCalls |-> FALSE],
           killed |-> [c \in 1..MaxCalls |-> FALSE]]

SideIdle ==
    /\ tmux = NoTmux
    /\ log_events = {}
    /\ cleanup = NewCleanup
    /\ inbox_observer = "started"
    /\ client = NoClient
    /\ http = NoHttp
    /\ wait = NoWait
    /\ stdio = NoStdio

\* the components that a specification does not exercise stay as they are
\* after startup
AuxIdle ==
    /\ health = 0
    /\ teardown = [c \in Calls |-> FALSE]
    /\ daemon_task = NewDaemon
    /\ lifespan = "running"
    /\ environ = [p \in Processes |-> None]
    /\ tool = NoTool
    /\ query = NoQuery
    /\ SideIdle

\* Python truth value of an Optional[str]
Truthy(v) == v \notin {None, EmptyStr}

\* send_message_to_agent: request.sender_id or os.getenv("TRON_TERMINAL_ID"),
\* and "unknown" if that is falsy
SenderOf(s) ==
    LET sender_id == IF Truthy(s) THEN s ELSE environ["server"] IN
    IF ~Truthy(sender_id) THEN Unknown ELSE sender_id

\* the server's request handling with nothing in progress
CoreIdle ==
    /\ loop = 0
    /\ kind = [c \in Calls |-> "none"]
    /\ pc = [c \in Calls |-> "idle"]
    /\ terminal_id = [c \in Calls |-> None]
    /\ future = [c \in Calls |-> "none"]
    /\ created = [c \in Calls |-> None]
    /\ polls = [c \in Calls |-> 0]
    /\ output = [c \in Calls |-> OutNone]
    /\ response = [c \in Calls |-> NoResponse]
    /\ stages = [c \in Calls |-> <<>>]
    /\ failed = [c \in Calls |-> {}]
    /\ status = [t \in TermIds |-> "NONE"]
    /\ inputs = [t \in TermIds |-> <<>>]
    /\ inbox = <<>>
    /\ sm = NoRequest
    /\ cad = [i \in Invokers |-> NoCall]

\* the server process after startup, with no request in progress
ServerIdle ==
    /\ CoreIdle
    /\ health = 0
    /\ teardown = [c \in Calls |-> FALSE]
    /\ daemon_task = NewDaemon
    /\ lifespan = "running"
    /\ environ = [p \in Processes |-> None]
    /\ tool = NoTool
    /\ query = NoQuery
    /\ cleanup = NewCleanup
    /\ inbox_observer = "started"
    /\ tmux = NoTmux
    /\ log_events = {}

Init ==
    /\ AuxIdle
    /\ loop = 0
    /\ kind = [c \in Calls |-> "none"]
    /\ pc = [c \in Calls |-> "idle"]
    /\ terminal_id = [c \in Calls |-> None]
    /\ future = [c \in Calls |-> "none"]
    /\ created = [c \in Calls |-> None]
    /\ polls = [c \in Calls |-> 0]
    /\ output = [c \in Calls |-> OutNone]
    /\ response = [c \in Calls |-> NoResponse]
    /\ stages = [c \in Calls |-> <<>>]
    /\ failed = [c \in Calls |-> {}]
    /\ status = [t \in TermIds |-> "NONE"]
    /\ inputs = [t \in TermIds |-> <<>>]
    /\ inbox = <<>>
    /\ sm = NoRequest
    /\ cad = [i \in Invokers |-> NoCall]

\* ------------------------------------------------------ terminal registry
Existing == {t \in TermIds : status[t] # "NONE"}

\* terminal_service.create_terminal allocates a fresh id
FreshId == Cardinality(Existing) + 1

\* terminal_service.send_input on an existing terminal: append the keystrokes
send_input(t, text) == [inputs EXCEPT ![t] = Append(@, text)]

\* the handler executes the stages evs, of which those in f fail, and
\* returns r, releasing the loop
Return(c, r, evs, f) ==
    /\ response' = [response EXCEPT ![c] = r]
    /\ failed' = [failed EXCEPT ![c] = @ \cup f]
    /\ stages' = [stages EXCEPT ![c] = @ \o evs \o <<"return">>]
    /\ pc' = [pc EXCEPT ![c] = "done"]
    /\ loop' = 0

\* ---------------------------------------------- handoff_agent / assign_agent
\* handoff_agent runs up to `await asyncio.wait_for(wrap_future(future), 30.0)`:
\* it has submitted _create_terminal_direct to a ThreadPoolExecutor
H_Start(c) ==
    /\ loop = 0
    /\ pc[c] = "idle"
    /\ \A d \in Calls : d < c => pc[d] # "idle"
    /\ kind' = [kind EXCEPT ![c] = "handoff"]
    /\ future' = [future EXCEPT ![c] = "running"]
    /\ stages' = [stages EXCEPT ![c] = Append(@, "create")]
    /\ pc' = [pc EXCEPT ![c] = "creating"]
    /\ UNCHANGED <<failed, loop, terminal_id, created, polls, output, response, termVars, inboxVars, auxVars>>

\* assign_agent runs up to `await asyncio.wait_for(wrap_future(future), 30.0)`
A_Start(c) ==
    /\ loop = 0
    /\ pc[c] = "idle"
    /\ \A d \in Calls : d < c => pc[d] # "idle"
    /\ kind' = [kind EXCEPT ![c] = "assign"]
    /\ future' = [future EXCEPT ![c] = "running"]
    /\ stages' = [stages EXCEPT ![c] = Append(@, "create")]
    /\ pc' = [pc EXCEPT ![c] = "creating"]
    /\ UNCHANGED <<failed, loop, terminal_id, created, polls, output, response, termVars, inboxVars, auxVars>>

\* executor thread: _create_terminal_direct returns (terminal.id, provider)
WorkerCreated(c) ==
    /\ future[c] = "running"
    /\ FreshId \in Calls
    /\ status' = [status EXCEPT ![FreshId] = "INITIALIZING"]
    /\ created' = [created EXCEPT ![c] = FreshId]
    /\ future' = [future EXCEPT ![c] = "ok"]
    /\ tmux' = IF kind[c] = "session"
               THEN [tmux EXCEPT !.sessions = @ \cup {tmux.session_name[c]}]
               ELSE tmux
    /\ UNCHANGED <<failed, loop, kind, pc, terminal_id, polls, output, response, stages, inputs, inboxVars, auxRest, log_events>>

\* executor thread: _create_terminal_direct raises
WorkerFailed(c) ==
    /\ future[c] = "running"
    /\ future' = [future EXCEPT ![c] = "err"]
    /\ UNCHANGED <<failed, loop, kind, pc, terminal_id, created, polls, output, response, stages, termVars, inboxVars, auxVars>>

\* utils.terminal.wait_until_terminal_status, one iteration: read the status
\* of the terminal; report the target, sleep for another read, or time out
wait_until_terminal_status(c, target) ==
    IF status[terminal_id[c]] = target THEN "reached"
    ELSE IF polls[c] + 1 < MaxPolls THEN "sleep"
    ELSE "timeout"

\* a request the handler sends to API_BASE_URL with the blocking `requests`
\* library is answered by a handler of the same loop, which runs only while
\* no coroutine owns the loop thread
ServedByLoop(c) == loop # c

\* --- handoff_agent
\* wait_for returns (terminal_id, provider); the handler goes on, without an
\* await, into wait_until_terminal_status(terminal_id, IDLE, timeout=30.0)
H_Created(c) ==
    /\ loop = 0 /\ kind[c] = "handoff" /\ pc[c] = "creating" /\ future[c] = "ok"
    /\ terminal_id' = [terminal_id EXCEPT ![c] = created[c]]
    /\ polls' = [polls EXCEPT ![c] = 0]
    /\ stages' = [stages EXCEPT ![c] = Append(@, "wait_idle")]
    /\ pc' = [pc EXCEPT ![c] = "waiting_idle"]
    /\ loop' = c
    /\ UNCHANGED <<failed, kind, future, created, output, response, termVars, inboxVars, auxVars>>

\* wait_for raises the worker's exception: `except Exception` returns
H_CreateFailed(c) ==
    /\ loop = 0 /\ kind[c] = "handoff" /\ pc[c] = "creating" /\ future[c] = "err"
    /\ Return(c, HandoffResponse(FALSE, Msg(FmtCreateFailed, 0), OutNone, None), <<>>, {"create"})
    /\ UNCHANGED <<kind, terminal_id, future, created, polls, output, termVars, inboxVars, auxVars>>

\* wait_for raises TimeoutError while the worker still runs; the `return`
\* leaves the `with ThreadPoolExecutor()` block, whose exit joins the worker
H_CreateTimeout(c) ==
    /\ loop = 0 /\ kind[c] = "handoff" /\ pc[c] = "creating" /\ future[c] = "running"
    /\ pc' = [pc EXCEPT ![c] = "joining"]
    /\ loop' = c
    /\ UNCHANGED <<failed, kind, terminal_id, future, created, polls, output, response, stages, termVars, inboxVars, auxVars>>

\* executor.shutdown(wait=True) returns once the worker has finished
H_JoinReturn(c) ==
    /\ loop = c /\ kind[c] = "handoff" /\ pc[c] = "joining" /\ future[c] # "running"
    /\ Return(c, HandoffResponse(FALSE, Msg(FmtCreateTimeout, 0), OutNone, None), <<>>, {"create"})
    /\ UNCHANGED <<kind, terminal_id, future, created, polls, output, termVars, inboxVars, auxVars>>

\* H_WaitIdle with the result of the wait ignored: the chain goes on after a
\* timeout as after IDLE
H_WaitIdle_IgnoresResult(c) ==
    /\ loop = c /\ kind[c] = "handoff" /\ pc[c] = "waiting_idle"
    /\ LET r == wait_until_terminal_status(c, "IDLE") IN
        CASE r = "reached" ->
               /\ stages' = [stages EXCEPT ![c] = @ \o <<"idle_reported", "settle">>]
               /\ pc' = [pc EXCEPT ![c] = "settle"]
               /\ loop' = 0
               /\ UNCHANGED <<polls, response, failed>>
          [] r = "sleep" ->
               /\ polls' = [polls EXCEPT ![c] = @ + 1]
               /\ UNCHANGED <<loop, pc, response, stages, failed>>
          [] OTHER ->
               /\ stages' = [stages EXCEPT ![c] = Append(@, "settle")]
               /\ pc' = [pc EXCEPT ![c] = "settle"]
               /\ loop' = 0
               /\ UNCHANGED <<polls, response, failed>>
    /\ UNCHANGED <<kind, terminal_id, future, created, output, termVars, inboxVars, auxVars>>

\* H_WaitIdle with the timeout response built like the creation failures,
\* terminal_id=None
H_WaitIdle_NullsId(c) ==
    /\ loop = c /\ kind[c] = "handoff" /\ pc[c] = "waiting_idle"
    /\ LET r == wait_until_terminal_status(c, "IDLE") IN
        CASE r = "reached" ->
               /\ stages' = [stages EXCEPT ![c] = @ \o <<"idle_reported", "settle">>]
               /\ pc' = [pc EXCEPT ![c] = "settle"]
               /\ loop' = 0
               /\ UNCHANGED <<polls, response, failed>>
          [] r = "sleep" ->
               /\ polls' = [polls EXCEPT ![c] = @ + 1]
               /\ UNCHANGED <<loop, pc, response, stages, failed>>
          [] OTHER ->
               /\ Return(c, HandoffResponse(FALSE, Msg(FmtIdleTimeout, terminal_id[c]),
                                            OutNone, None), <<>>, {"wait_idle"})
               /\ UNCHANGED polls
    /\ UNCHANGED <<kind, terminal_id, future, created, output, termVars, inboxVars, auxVars>>

\* one status read of the wait for IDLE
H_WaitIdle(c) ==
    /\ loop = c /\ kind[c] = "handoff" /\ pc[c] = "waiting_idle"
    /\ LET r == wait_until_terminal_status(c, "IDLE") IN
        CASE r = "reached" ->
               /\ stages' = [stages EXCEPT ![c] = @ \o <<"idle_reported", "settle">>]
               /\ pc' = [pc EXCEPT ![c] = "settle"]
               /\ loop' = 0
               /\ UNCHANGED <<polls, response, failed>>
          [] r = "sleep" ->
               /\ polls' = [polls EXCEPT ![c] = @ + 1]
               /\ UNCHANGED <<loop, pc, response, stages, failed>>
          [] OTHER ->
               /\ Return(c, HandoffResponse(FALSE, Msg(FmtIdleTimeout, terminal_id[c]),
                                            OutNone, terminal_id[c]), <<>>, {"wait_idle"})
               /\ UNCHANGED polls
    /\ UNCHANGED <<kind, terminal_id, future, created, output, termVars, inboxVars, auxVars>>

\* asyncio.sleep(2) is over; _send_direct_input_direct(terminal_id, message)
\* injects the task or raises, and the wait for COMPLETED starts
H_Send(c) ==
    /\ loop = 0 /\ kind[c] = "handoff" /\ pc[c] = "settle"
    /\ \E ok \in BOOLEAN :
        IF ok
        THEN /\ inputs' = send_input(terminal_id[c], TaskText(c))
             /\ stages' = [stages EXCEPT ![c] = @ \o <<"send", "wait_completed">>]
             /\ polls' = [polls EXCEPT ![c] = 0]
             /\ pc' = [pc EXCEPT ![c] = "waiting_completed"]
             /\ loop' = c
             /\ UNCHANGED <<response, failed>>
        ELSE /\ Return(c, HandoffResponse(FALSE, Msg(FmtHandoffFailed, terminal_id[c]),
                                          OutNone, terminal_id[c]), <<"send">>, {"send"})
             /\ UNCHANGED <<inputs, polls>>
    /\ UNCHANGED <<kind, terminal_id, future, created, output, status, inboxVars, auxVars>>

\* H_WaitCompleted with the result of the wait ignored: the output is read
\* after a timeout as after COMPLETED
H_WaitCompleted_IgnoresResult(c) ==
    /\ loop = c /\ kind[c] = "handoff" /\ pc[c] = "waiting_completed"
    /\ LET r == wait_until_terminal_status(c, "COMPLETED") IN
        CASE r = "reached" ->
               /\ stages' = [stages EXCEPT ![c] = Append(@, "completed_reported")]
               /\ pc' = [pc EXCEPT ![c] = "reading"]
               /\ UNCHANGED <<loop, polls, response, failed>>
          [] r = "sleep" ->
               /\ polls' = [polls EXCEPT ![c] = @ + 1]
               /\ UNCHANGED <<loop, pc, response, stages, failed>>
          [] OTHER ->
               /\ pc' = [pc EXCEPT ![c] = "reading"]
               /\ UNCHANGED <<loop, polls, response, stages, failed>>
    /\ UNCHANGED <<kind, terminal_id, future, created, output, termVars, inboxVars, auxVars>>

\* H_WaitCompleted issuing the exit request before it returns the timeout
H_WaitCompleted_ExitsOnTimeout(c) ==
    /\ loop = c /\ kind[c] = "handoff" /\ pc[c] = "waiting_completed"
    /\ LET r == wait_until_terminal_status(c, "COMPLETED") IN
        CASE r = "reached" ->
               /\ stages' = [stages EXCEPT ![c] = Append(@, "completed_reported")]
               /\ pc' = [pc EXCEPT ![c] = "reading"]
               /\ UNCHANGED <<loop, polls, response, failed>>
          [] r = "sleep" ->
               /\ polls' = [polls EXCEPT ![c] = @ + 1]
               /\ UNCHANGED <<loop, pc, response, stages, failed>>
          [] OTHER ->
               /\ Return(c, HandoffResponse(FALSE, Msg(FmtHandoffTimeout, 0),
                                            OutNone, terminal_id[c]), <<"exit">>, {"wait_completed"})
               /\ UNCHANGED polls
    /\ UNCHANGED <<kind, terminal_id, future, created, output, termVars, inboxVars, auxVars>>

\* one status read of the wait for COMPLETED
H_WaitCompleted(c) ==
    /\ loop = c /\ kind[c] = "handoff" /\ pc[c] = "waiting_completed"
    /\ LET r == wait_until_terminal_status(c, "COMPLETED") IN
        CASE r = "reached" ->
               /\ stages' = [stages EXCEPT ![c] = Append(@, "completed_reported")]
               /\ pc' = [pc EXCEPT ![c] = "reading"]
               /\ UNCHANGED <<loop, polls, response, failed>>
          [] r = "sleep" ->
               /\ polls' = [polls EXCEPT ![c] = @ + 1]
               /\ UNCHANGED <<loop, pc, response, stages, failed>>
          [] OTHER ->
               /\ Return(c, HandoffResponse(FALSE, Msg(FmtHandoffTimeout, 0),
                                            OutNone, terminal_id[c]), <<>>, {"wait_completed"})
               /\ UNCHANGED polls
    /\ UNCHANGED <<kind, terminal_id, future, created, output, termVars, inboxVars, auxVars>>

\* requests.get(.../terminals/{terminal_id}/output, mode=last, timeout=10);
\* any exception is replaced by the fallback text and the chain goes on
H_ReadOutput(c) ==
    /\ loop = c /\ kind[c] = "handoff" /\ pc[c] = "reading"
    /\ output' = [output EXCEPT ![c] =
                    IF ServedByLoop(c) THEN OutLast(terminal_id[c]) ELSE OutFailed]
    /\ failed' = [failed EXCEPT ![c] = IF ServedByLoop(c) THEN @ ELSE @ \cup {"read"}]
    /\ stages' = [stages EXCEPT ![c] = Append(@, "read")]
    /\ pc' = [pc EXCEPT ![c] = "exiting"]
    /\ UNCHANGED <<loop, kind, terminal_id, future, created, polls, response, termVars, inboxVars, auxVars>>

\* requests.post(.../terminals/{terminal_id}/exit, timeout=5); any exception
\* is logged as a warning and the chain goes on
H_Exit(c) ==
    /\ loop = c /\ kind[c] = "handoff" /\ pc[c] = "exiting"
    /\ inputs' = IF ServedByLoop(c)
                 THEN send_input(terminal_id[c], [kind |-> "exit", ref |-> 0])
                 ELSE inputs
    /\ failed' = [failed EXCEPT ![c] = IF ServedByLoop(c) THEN @ ELSE @ \cup {"exit"}]
    /\ stages' = [stages EXCEPT ![c] = Append(@, "exit")]
    /\ pc' = [pc EXCEPT ![c] = "returning"]
    /\ UNCHANGED <<loop, kind, terminal_id, future, created, polls, output, response, status, inboxVars, auxVars>>

\* return HandoffResponse(success=True, ...)
H_Return(c) ==
    /\ loop = c /\ kind[c] = "handoff" /\ pc[c] = "returning"
    /\ Return(c, HandoffResponse(TRUE, Msg(FmtHandoffOk, 0), output[c], terminal_id[c]), <<>>, {})
    /\ UNCHANGED <<kind, terminal_id, future, created, polls, output, termVars, inboxVars, auxVars>>

\* --- assign_agent
\* wait_for returns (terminal_id, provider); the handler goes on, without an
\* await, to _send_direct_input_direct
A_Created(c) ==
    /\ loop = 0 /\ kind[c] = "assign" /\ pc[c] = "creating" /\ future[c] = "ok"
    /\ terminal_id' = [terminal_id EXCEPT ![c] = created[c]]
    /\ pc' = [pc EXCEPT ![c] = "sending"]
    /\ loop' = c
    /\ UNCHANGED <<failed, kind, future, created, polls, output, response, stages, termVars, inboxVars, auxVars>>

\* wait_for raises the worker's exception: only the outer `except Exception`
\* catches it
A_CreateFailed(c) ==
    /\ loop = 0 /\ kind[c] = "assign" /\ pc[c] = "creating" /\ future[c] = "err"
    /\ Return(c, AssignResponse(FALSE, None, Msg(FmtAssignFailed, 0)), <<>>, {"create"})
    /\ UNCHANGED <<kind, terminal_id, future, created, polls, output, termVars, inboxVars, auxVars>>

\* wait_for raises TimeoutError; the `return` joins the worker as in handoff
A_CreateTimeout(c) ==
    /\ loop = 0 /\ kind[c] = "assign" /\ pc[c] = "creating" /\ future[c] = "running"
    /\ pc' = [pc EXCEPT ![c] = "joining"]
    /\ loop' = c
    /\ UNCHANGED <<failed, kind, terminal_id, future, created, polls, output, response, stages, termVars, inboxVars, auxVars>>

A_JoinReturn(c) ==
    /\ loop = c /\ kind[c] = "assign" /\ pc[c] = "joining" /\ future[c] # "running"
    /\ Return(c, AssignResponse(FALSE, None, Msg(FmtAssignTimeout, 0)), <<>>, {"create"})
    /\ UNCHANGED <<kind, terminal_id, future, created, polls, output, termVars, inboxVars, auxVars>>

\* A_Send with the task injected twice
A_Send_InjectsTwice(c) ==
    /\ loop = c /\ kind[c] = "assign" /\ pc[c] = "sending"
    /\ \E ok \in BOOLEAN :
        IF ok
        THEN /\ inputs' = [inputs EXCEPT ![terminal_id[c]] = @ \o <<TaskText(c), TaskText(c)>>]
             /\ Return(c, AssignResponse(TRUE, terminal_id[c], Msg(FmtAssignOk, terminal_id[c])),
                       <<"send">>, {})
        ELSE /\ Return(c, AssignResponse(FALSE, None, Msg(FmtAssignFailed, terminal_id[c])),
                       <<"send">>, {"send"})
             /\ UNCHANGED inputs
    /\ UNCHANGED <<kind, terminal_id, future, created, polls, output, status, inboxVars, auxVars>>

\* _send_direct_input_direct(terminal_id, message) injects the task and the
\* handler returns success, or it raises and the outer `except` returns
A_Send(c) ==
    /\ loop = c /\ kind[c] = "assign" /\ pc[c] = "sending"
    /\ \E ok \in BOOLEAN :
        IF ok
        THEN /\ inputs' = send_input(terminal_id[c], TaskText(c))
             /\ Return(c, AssignResponse(TRUE, terminal_id[c], Msg(FmtAssignOk, terminal_id[c])),
                       <<"send">>, {})
        ELSE /\ Return(c, AssignResponse(FALSE, None, Msg(FmtAssignFailed, terminal_id[c])),
                       <<"send">>, {"send"})
             /\ UNCHANGED inputs
    /\ UNCHANGED <<kind, terminal_id, future, created, polls, output, status, inboxVars, auxVars>>

\* --- create_session and _initialize_session_background
\* utils.terminal.generate_terminal_id(): a new random id; create_terminal
\* draws the id of the terminal it registers on its own
GeneratedIds == 1..(MaxTerminals + 1)

\* the body that create_session returns with HTTP 202
SessionResponse(g) ==
    [status |-> "initializing", http_status |-> HTTP_202_ACCEPTED, terminal_id |-> g,
     message |-> Msg(FmtSessionStarted, 0)]

\* the cleanup of _initialize_session_background:
\* `if tmux_client.session_exists(session_name): tmux_client.kill_session(session_name)`
kill_session(c) ==
    IF tmux.session_name[c] \in tmux.sessions
    THEN [tmux EXCEPT !.sessions = @ \ {tmux.session_name[c]}, !.killed[c] = TRUE]
    ELSE tmux

\* a session of the given name exists before the request is made: an
\* earlier `launch --session-name` created it
TmuxSession ==
    /\ \A c \in Calls : pc[c] = "idle"
    /\ GivenSession \notin tmux.sessions
    /\ tmux' = [tmux EXCEPT !.sessions = @ \cup {GivenSession}]
    /\ UNCHANGED <<loop, delegVars, termVars, inboxVars, auxRest, log_events>>

\* create_session: generate the ids, build the response, create the task of
\* _initialize_session_background and return the response; the handler has
\* no await, so the task has not run a step when the response is returned
S_Start(c) ==
    /\ loop = 0
    /\ pc[c] = "idle"
    /\ \A d \in Calls : d < c => pc[d] # "idle"
    /\ kind' = [kind EXCEPT ![c] = "session"]
    /\ \E g \in GeneratedIds :
          /\ terminal_id' = [terminal_id EXCEPT ![c] = g]
          /\ response' = [response EXCEPT ![c] = SessionResponse(g)]
    /\ \E n \in {GivenSession, generate_session_name(c)} :
          tmux' = [tmux EXCEPT !.session_name[c] = n, !.existed[c] = (n \in tmux.sessions)]
    /\ stages' = [stages EXCEPT ![c] = Append(@, "return")]
    /\ pc' = [pc EXCEPT ![c] = "scheduled"]
    /\ UNCHANGED <<failed, loop, future, created, polls, output, termVars, inboxVars, auxRest, log_events>>

\* the task of _initialize_session_background runs up to
\* `await asyncio.wait_for(wrap_future(executor.submit(...)), 60.0)`
S_Run(c) ==
    /\ loop = 0 /\ kind[c] = "session" /\ pc[c] = "scheduled"
    /\ future' = [future EXCEPT ![c] = "running"]
    /\ stages' = [stages EXCEPT ![c] = Append(@, "create")]
    /\ pc' = [pc EXCEPT ![c] = "creating"]
    /\ UNCHANGED <<failed, loop, kind, terminal_id, created, polls, output, response, termVars, inboxVars, auxVars>>

\* the task ends, the stages in f having failed; it has no caller to return
\* a value to
TaskEnds(c, f) ==
    /\ failed' = [failed EXCEPT ![c] = @ \cup f]
    /\ stages' = [stages EXCEPT ![c] = Append(@, "end")]
    /\ pc' = [pc EXCEPT ![c] = "done"]
    /\ loop' = 0
    /\ UNCHANGED response

\* S_CreateFailed answering the request with the failure
S_CreateFailed_ChangesResponse(c) ==
    /\ loop = 0 /\ kind[c] = "session" /\ pc[c] = "creating" /\ future[c] = "err"
    /\ teardown' = [teardown EXCEPT ![c] = TRUE]
    /\ tmux' = kill_session(c)
    /\ Return(c, [SessionResponse(terminal_id[c]) EXCEPT !.status = "failed"], <<>>, {"create"})
    /\ UNCHANGED <<kind, terminal_id, future, created, polls, output, termVars, inboxVars,
                   health, flowVars, senderVars, query, sideRest, log_events>>

\* wait_for returns the terminal: the task logs the completion and ends
S_Created(c) ==
    /\ loop = 0 /\ kind[c] = "session" /\ pc[c] = "creating" /\ future[c] = "ok"
    /\ TaskEnds(c, {})
    /\ UNCHANGED <<kind, terminal_id, future, created, polls, output, termVars, inboxVars, auxVars>>

\* wait_for raises the worker's exception: the outer `except Exception` logs
\* it and tries tmux_client.kill_session(session_name)
S_CreateFailed(c) ==
    /\ loop = 0 /\ kind[c] = "session" /\ pc[c] = "creating" /\ future[c] = "err"
    /\ teardown' = [teardown EXCEPT ![c] = TRUE]
    /\ tmux' = kill_session(c)
    /\ TaskEnds(c, {"create"})
    /\ UNCHANGED <<kind, terminal_id, future, created, polls, output, termVars, inboxVars,
                   health, flowVars, senderVars, query, sideRest, log_events>>

\* wait_for raises TimeoutError while the worker still runs: the handler logs
\* it and tries tmux_client.kill_session(session_name) (the worker has not
\* registered a terminal yet), then leaves the `with` block, whose exit joins
\* the worker
S_CreateTimeout(c) ==
    /\ loop = 0 /\ kind[c] = "session" /\ pc[c] = "creating" /\ future[c] = "running"
    /\ teardown' = [teardown EXCEPT ![c] = TRUE]
    /\ tmux' = kill_session(c)
    /\ pc' = [pc EXCEPT ![c] = "joining"]
    /\ loop' = c
    /\ UNCHANGED <<failed, kind, terminal_id, future, created, polls, output, response, stages,
                   termVars, inboxVars, health, flowVars, senderVars, query, sideRest, log_events>>

\* executor.shutdown(wait=True) returns once the worker has finished
S_JoinReturn(c) ==
    /\ loop = c /\ kind[c] = "session" /\ pc[c] = "joining" /\ future[c] # "running"
    /\ TaskEnds(c, {"create"})
    /\ UNCHANGED <<kind, terminal_id, future, created, polls, output, termVars, inboxVars, auxVars>>

\* --- health_check: a handler without awaits; it runs when the loop thread
\* is free and answers at once
health_check ==
    /\ loop = 0
    /\ health < MaxPings
    /\ health' = health + 1
    /\ UNCHANGED <<loop, delegVars, termVars, inboxVars, teardown, flowVars, senderVars, query, sideVars>>

\* --- the agent process of a terminal writes to its log: the status that the
\* classification of the log yields changes
AgentStep(t) ==
    /\ status[t] # "NONE"
    /\ \E s \in Statuses \ {status[t]} : status' = [status EXCEPT ![t] = s]
    /\ UNCHANGED <<loop, delegVars, inputs, inboxVars, auxVars>>


\* ------------------------------------------------------------ inbox queue
\* database.create_inbox_message: persist a new pending row
create_inbox_message(sender, receiver) ==
    Append(inbox, [sender_id |-> sender, receiver_id |-> receiver, status |-> "pending"])

\* ids of the pending rows of a receiver
Pending(r) == {m \in 1..Len(inbox) : inbox[m].receiver_id = r /\ inbox[m].status = "pending"}

\* the oldest pending row of a receiver (0 if it has none)
OldestPending(r) ==
    IF Pending(r) = {} THEN 0
    ELSE CHOOSE m \in Pending(r) : \A n \in Pending(r) : m <= n

\* database.update_message_status
update_message_status(m, st) == [inbox EXCEPT ![m].status = st]

\* inbox_service.check_and_send_pending_messages(receiver), first step: the
\* invoker reads the receiver's status; if it is not IDLE the call is a no-op
CAD_CheckStatus(i) ==
    /\ cad[i].pc = "check"
    /\ cad' = [cad EXCEPT ![i].pc = IF status[cad[i].receiver] = "IDLE" THEN "pick" ELSE "end",
                          ![i].sawIdle = (status[cad[i].receiver] = "IDLE")]
    /\ UNCHANGED <<loop, delegVars, auxVars, termVars, inbox, sm>>

\* second step: read the oldest pending message of the receiver
CAD_Pick(i) ==
    /\ cad[i].pc = "pick"
    /\ LET m == OldestPending(cad[i].receiver) IN
        cad' = [cad EXCEPT ![i].pc = IF m = 0 THEN "end" ELSE "send", ![i].picked = m]
    /\ UNCHANGED <<loop, delegVars, auxVars, termVars, inbox, sm>>

\* third step: terminal_service.send_input(receiver, message text), which
\* injects the text or fails
CAD_Send(i) ==
    /\ cad[i].pc = "send"
    /\ \E ok \in BOOLEAN :
        IF ok
        THEN /\ inputs' = send_input(cad[i].receiver, InboxText(cad[i].picked))
             /\ cad' = [cad EXCEPT ![i].pc = "mark_delivered", ![i].injected = @ + 1]
        ELSE /\ cad' = [cad EXCEPT ![i].pc = "mark_failed"]
             /\ UNCHANGED inputs
    /\ UNCHANGED <<loop, delegVars, auxVars, status, inbox, sm>>

\* CAD_Mark followed by another round: the call drains the queue
CAD_Mark_Drains(i) ==
    /\ cad[i].pc \in {"mark_delivered", "mark_failed"}
    /\ LET m == cad[i].picked
           st == IF cad[i].pc = "mark_delivered" THEN "delivered" ELSE "failed" IN
        /\ inbox' = update_message_status(m, st)
        /\ cad' = [cad EXCEPT ![i].pc = "pick",
                              ![i].changed = IF inbox[m].status # st THEN @ \cup {m} ELSE @]
    /\ UNCHANGED <<loop, delegVars, auxVars, termVars, sm>>

\* last step: mark the message delivered, or failed if the injection failed
CAD_Mark(i) ==
    /\ cad[i].pc \in {"mark_delivered", "mark_failed"}
    /\ LET m == cad[i].picked
           st == IF cad[i].pc = "mark_delivered" THEN "delivered" ELSE "failed" IN
        /\ inbox' = update_message_status(m, st)
        /\ cad' = [cad EXCEPT ![i].pc = "end",
                              ![i].changed = IF inbox[m].status # st THEN @ \cup {m} ELSE @]
    /\ UNCHANGED <<loop, delegVars, auxVars, termVars, sm>>

\* --- the agent of a receiving terminal takes up work (its log classifies as
\* BUSY) or finishes it and waits for input (IDLE); a delivery attempt
\* tells IDLE from every other status and no more
ReceiverStep(r) ==
    /\ status[r] \in {"IDLE", "BUSY"}
    /\ status' = [status EXCEPT ![r] = IF @ = "IDLE" THEN "BUSY" ELSE "IDLE"]
    /\ log_events' = IF status[r] = "BUSY" THEN log_events \cup {r} ELSE log_events
    /\ UNCHANGED <<loop, delegVars, inputs, inboxVars, auxRest, tmux>>

\* SM_Enqueue with the environment taking precedence over the request
SM_Enqueue_PrefersEnv(r, s) ==
    /\ loop = 0
    /\ sm.pc \in {"idle", "done"}
    /\ Len(inbox) < MaxMessages
    /\ inbox' = create_inbox_message(
                    IF Truthy(environ["server"]) THEN environ["server"] ELSE SenderOf(s), r)
    /\ sm' = [NoRequest EXCEPT !.pc = "enqueued", !.n = sm.n + 1, !.receiver = r,
                               !.sender_id = s,
                               !.message_id = Len(inbox) + 1,
                               !.trace = <<[op |-> "enqueue", receiver |-> r]>>]
    /\ loop' = SendMessageLoop
    /\ UNCHANGED <<delegVars, auxVars, termVars, cad>>

\* --- send_message_to_agent: create_inbox_message(sender_id, receiver_id,
\* message), then check_and_send_pending_messages(receiver_id); the handler
\* has no await and owns the loop until it returns
SM_Enqueue(r, s) ==
    /\ loop = 0
    /\ sm.pc \in {"idle", "done"}
    /\ Len(inbox) < MaxMessages
    /\ inbox' = create_inbox_message(SenderOf(s), r)
    /\ sm' = [NoRequest EXCEPT !.pc = "enqueued", !.n = sm.n + 1, !.receiver = r,
                               !.sender_id = s,
                               !.message_id = Len(inbox) + 1,
                               !.trace = <<[op |-> "enqueue", receiver |-> r]>>]
    /\ loop' = SendMessageLoop
    /\ UNCHANGED <<delegVars, auxVars, termVars, cad>>

\* SM_CheckAndSend with the delivery attempt left out
SM_CheckAndSend_Skips ==
    /\ loop = SendMessageLoop
    /\ sm.pc = "enqueued"
    /\ cad' = [cad EXCEPT !["request"] = [NoCall EXCEPT !.pc = "end", !.receiver = sm.receiver]]
    /\ sm' = [sm EXCEPT !.pc = "delivering"]
    /\ UNCHANGED <<loop, delegVars, auxVars, termVars, inbox>>

SM_CheckAndSend ==
    /\ loop = SendMessageLoop
    /\ sm.pc = "enqueued"
    /\ cad' = [cad EXCEPT !["request"] = [NoCall EXCEPT !.pc = "check", !.receiver = sm.receiver]]
    /\ sm' = [sm EXCEPT !.pc = "delivering",
                        !.trace = Append(@, [op |-> "check_and_send", receiver |-> sm.receiver])]
    /\ UNCHANGED <<loop, delegVars, auxVars, termVars, inbox>>

\* return SendMessageResponse(success=True, message_id=inbox_msg.id, ...)
SM_Return ==
    /\ loop = SendMessageLoop
    /\ sm.pc = "delivering"
    /\ cad["request"].pc = "end"
    /\ sm' = [sm EXCEPT !.pc = "done", !.success = TRUE, !.returned = sm.message_id]
    /\ cad' = [cad EXCEPT !["request"] = NoCall]
    /\ loop' = 0
    /\ UNCHANGED <<delegVars, auxVars, termVars, inbox>>

\* the injection of the delivery attempt failed and
\* check_and_send_pending_messages raises: the `except` clauses of the
\* handler return SendMessageResponse(success=False, message_id=None, ...)
SM_Raise ==
    /\ loop = SendMessageLoop
    /\ sm.pc = "delivering"
    /\ cad["request"].pc = "end"
    /\ cad["request"].picked # 0
    /\ inbox[cad["request"].picked].status = "failed"
    /\ sm' = [sm EXCEPT !.pc = "done", !.success = FALSE, !.returned = None]
    /\ cad' = [cad EXCEPT !["request"] = NoCall]
    /\ loop' = 0
    /\ UNCHANGED <<delegVars, auxVars, termVars, inbox>>

\* --- LogFileHandler (observer thread): the observer dispatches the event
\* of terminal r, whose log changed and classified as IDLE; if r is still
\* IDLE, attempt a delivery for r
W_Trigger(r) ==
    /\ cad["watcher"].pc = "idle"
    /\ r \in log_events
    /\ log_events' = log_events \ {r}
    /\ cad' = IF status[r] = "IDLE"
              THEN [cad EXCEPT !["watcher"] = [NoCall EXCEPT !.pc = "check", !.receiver = r]]
              ELSE cad
    /\ UNCHANGED <<loop, delegVars, auxRest, tmux, termVars, inbox, sm>>

\* the observer thread's handler returns
W_Return ==
    /\ cad["watcher"].pc = "end"
    /\ cad' = [cad EXCEPT !["watcher"] = NoCall]
    /\ UNCHANGED <<loop, delegVars, auxVars, termVars, inbox, sm>>

\* ------------------------------------------ agent tools: send_message
\* http_server.send_message(receiver_id, message, sender_id), up to the call
\* of the client: remember TRON_TERMINAL_ID and, if a sender_id is given, put
\* it into os.environ
T_Call(r, s) ==
    /\ tool.pc = "idle"
    /\ Len(inbox) < MaxMessages
    /\ tool' = [NoTool EXCEPT !.pc = "called", !.receiver_id = r, !.sender_id = s,
                              !.original_sender = environ["tools"]]
    /\ environ' = IF Truthy(s) THEN [environ EXCEPT !["tools"] = s] ELSE environ
    /\ UNCHANGED <<loop, delegVars, termVars, inboxVars, health, teardown, flowVars, query, sideVars>>

\* AgentCommunicationClient.send_message: sender_id = os.getenv(...) goes
\* into the SendMessageRequest, which is posted; the post may fail before the
\* server takes the request, and the client then returns success=False
C_Post ==
    /\ tool.pc = "called"
    /\ \E ok \in BOOLEAN :
        tool' = [tool EXCEPT !.pc = IF ok THEN "posted" ELSE "responded",
                             !.request_sender = environ["tools"],
                             !.n0 = sm.n]
    /\ UNCHANGED <<loop, delegVars, termVars, inboxVars, health, teardown, flowVars, environ, query, sideVars>>

\* the server takes the posted request
SM_FromTool ==
    /\ tool.pc = "posted"
    /\ sm.n = tool.n0
    /\ SM_Enqueue(tool.receiver_id, tool.request_sender)

\* the client gets the SendMessageResponse and returns its dict
C_Response ==
    /\ tool.pc = "posted"
    /\ sm.pc = "done"
    /\ sm.n = tool.n0 + 1
    /\ tool' = [tool EXCEPT !.pc = "responded", !.success = sm.success]
    /\ UNCHANGED <<loop, delegVars, termVars, inboxVars, health, teardown, flowVars, environ, query, sideVars>>

\* the `finally` of http_server.send_message: put the remembered value back,
\* or delete the variable if there was none and one was set
T_Restore ==
    /\ tool.pc = "responded"
    /\ environ' = IF Truthy(tool.original_sender)
                  THEN [environ EXCEPT !["tools"] = tool.original_sender]
                  ELSE IF Truthy(tool.sender_id) /\ environ["tools"] # None
                       THEN [environ EXCEPT !["tools"] = None]
                       ELSE environ
    /\ tool' = [tool EXCEPT !.pc = "idle"]
    /\ UNCHANGED <<loop, delegVars, termVars, inboxVars, health, teardown, flowVars, query, sideVars>>

\* the agent tools and the server run in processes of their own, each
\* started with TRON_TERMINAL_ID unset, empty or set to a terminal id
InitSender ==
    /\ environ \in [Processes -> EnvValues]
    /\ SideIdle
    /\ health = 0
    /\ teardown = [c \in Calls |-> FALSE]
    /\ daemon_task = NewDaemon
    /\ lifespan = "running"
    /\ tool = NoTool
    /\ query = NoQuery
    /\ loop = 0
    /\ kind = [c \in Calls |-> "none"]
    /\ pc = [c \in Calls |-> "idle"]
    /\ terminal_id = [c \in Calls |-> None]
    /\ future = [c \in Calls |-> "none"]
    /\ created = [c \in Calls |-> None]
    /\ polls = [c \in Calls |-> 0]
    /\ output = [c \in Calls |-> OutNone]
    /\ response = [c \in Calls |-> NoResponse]
    /\ stages = [c \in Calls |-> <<>>]
    /\ failed = [c \in Calls |-> {}]
    /\ status = [t \in TermIds |-> IF t \in Receivers THEN "IDLE" ELSE "NONE"]
    /\ inputs = [t \in TermIds |-> <<>>]
    /\ inbox = <<>>
    /\ sm = NoRequest
    /\ cad = [i \in Invokers |-> NoCall]

NextSender ==
    \/ \E r \in Receivers : \E s \in EnvValues : T_Call(r, s)
    \/ C_Post
    \/ SM_FromTool
    \/ SM_CheckAndSend
    \/ CAD_CheckStatus("request")
    \/ CAD_Pick("request")
    \/ CAD_Send("request")
    \/ CAD_Mark("request")
    \/ SM_Return
    \/ SM_Raise
    \/ C_Response
    \/ T_Restore

SpecSender == InitSender /\ [][NextSender]_vars

\* ------------------------------------------------- inbox-messages query
max(a, b) == IF a >= b THEN a ELSE b
min(a, b) == IF a <= b THEN a ELSE b

\* ClampLimit without the upper end
ClampLimit_NoUpper(limit) == max(MIN_LIMIT, limit)

\* limit = min(max(1, limit), 100)
ClampLimit(limit) == min(max(MIN_LIMIT, limit), MAX_LIMIT)

\* database.get_inbox_messages(terminal_id, status, limit) on a receiver with
\* `rows` matching rows: the first `limit` of them
get_inbox_messages(rows, limit) == [k \in 1..min(rows, limit) |-> k]

\* str.lower() on the status strings of StatusParams
lower(s) ==
    CASE s = "ALL" -> "all"
      [] s = "Pending" -> "pending"
      [] OTHER -> s

\* `if status and status.lower() != "all"`: a filter is asked for
FilterAsked(st) == st # <<>> /\ st[1] # "" /\ lower(st[1]) # "all"

\* MessageStatus(status.lower()) raises ValueError for a string that is not a
\* value of the enumeration
RaisesValueError(st) == FilterAsked(st) /\ lower(st[1]) \notin MessageStatus

\* `status.HTTP_...` inside the handler: the name `status` is the handler's
\* parameter (a str or None), not the fastapi module, so the attribute lookup
\* raises AttributeError before any HTTPException is built
StatusAttribute(st, code) == "AttributeError"

\* the answer to an exception that leaves the handler: an HTTPException is
\* answered with its status code, anything else with 500 by the framework
AnswerTo(exc, code) ==
    IF exc = "HTTPException" THEN code ELSE HTTP_500_INTERNAL_SERVER_ERROR

\* get_inbox_messages_endpoint: validate the status, clamp the limit, query
\* the store, answer with the messages and total=len(messages). For a status
\* outside the enumeration the ValueError handler raises AttributeError while
\* it builds the 400 (it is not a ValueError, so the 404 handler is passed),
\* the `except Exception` handler raises AttributeError again while it builds
\* the 500, and that exception leaves the handler.
Q_Get ==
    /\ loop = 0
    /\ query.pc = "idle"
    /\ IF RaisesValueError(query.status)
       THEN LET first == StatusAttribute(query.status, HTTP_400_BAD_REQUEST)
                second == IF first = "ValueError"
                          THEN StatusAttribute(query.status, HTTP_404_NOT_FOUND)
                          ELSE StatusAttribute(query.status, HTTP_500_INTERNAL_SERVER_ERROR) IN
            query' = [query EXCEPT !.pc = "done", !.escaped = second,
                         !.http_status = AnswerTo(second, HTTP_500_INTERNAL_SERVER_ERROR)]
       ELSE LET limit == ClampLimit(query.limit)
                messages == get_inbox_messages(query.rows, limit) IN
            query' = [query EXCEPT !.pc = "done", !.used = limit,
                         !.filter = IF FilterAsked(query.status)
                                    THEN <<lower(query.status[1])>> ELSE <<>>,
                         !.reads = 1,
                         !.messages = messages, !.total = Len(messages),
                         !.http_status = HTTP_200_OK]
    /\ UNCHANGED <<loop, delegVars, termVars, inboxVars, health, teardown, flowVars, senderVars, sideVars>>

\* a request with any status parameter and any integer limit, for a receiver
\* with any number of rows that match
InitQuery ==
    /\ query \in {[NoQuery EXCEPT !.status = st, !.limit = l, !.rows = n] :
                      st \in StatusParams, l \in Limits, n \in 0..MaxRows}
    /\ SideIdle
    /\ health = 0
    /\ teardown = [c \in Calls |-> FALSE]
    /\ daemon_task = NewDaemon
    /\ lifespan = "running"
    /\ environ = [p \in Processes |-> None]
    /\ tool = NoTool
    /\ loop = 0
    /\ kind = [c \in Calls |-> "none"]
    /\ pc = [c \in Calls |-> "idle"]
    /\ terminal_id = [c \in Calls |-> None]
    /\ future = [c \in Calls |-> "none"]
    /\ created = [c \in Calls |-> None]
    /\ polls = [c \in Calls |-> 0]
    /\ output = [c \in Calls |-> OutNone]
    /\ response = [c \in Calls |-> NoResponse]
    /\ stages = [c \in Calls |-> <<>>]
    /\ failed = [c \in Calls |-> {}]
    /\ status = [t \in TermIds |-> IF t \in Receivers THEN "IDLE" ELSE "NONE"]
    /\ inputs = [t \in TermIds |-> <<>>]
    /\ inbox = <<>>
    /\ sm = NoRequest
    /\ cad = [i \in Invokers |-> NoCall]

NextQuery == Q_Get

SpecQuery == InitQuery /\ [][NextQuery]_vars

\* ------------------------------------------------------------ flow daemon
\* a list of flows without repetition, in the order of the store
RECURSIVE SortedSeq(_)
SortedSeq(S) ==
    IF S = {} THEN <<>>
    ELSE LET m == CHOOSE x \in S : \A y \in S : x <= y IN <<m>> \o SortedSeq(S \ {m})

\* FD_Tick with the tick run off the loop thread: the loop is free while the
\* flows execute
FD_Tick_ReleasesLoop ==
    /\ loop = 0
    /\ daemon_task.pc \in {"created", "sleep"}
    /\ ~daemon_task.cancel
    /\ daemon_task.ticks < MaxTicks
    /\ \E ok \in BOOLEAN : \E S \in SUBSET Flows :
        /\ ok \/ S = {}
        /\ daemon_task' = [daemon_task EXCEPT
                !.pc = "exec", !.ticks = @ + 1,
                !.flows = SortedSeq(S), !.todo = SortedSeq(S),
                !.outcome = [f \in Flows |-> "none"],
                !.attempts = [f \in Flows |-> 0],
                !.fetch_failed = ~ok, !.slept = 0,
                !.prev_failed = daemon_task.fetch_failed
                                \/ \E f \in Flows : daemon_task.outcome[f] = "failed"]
    /\ loop' = 0
    /\ UNCHANGED <<delegVars, termVars, inboxVars, health, teardown, lifespan, senderVars, query, sideVars>>

\* the task is scheduled (for the first time, or its sleep is over) and starts
\* a tick: flow_service.get_flows_to_run() returns the eligible flows or
\* raises; either way the coroutine keeps the loop thread, it has no await
\* before its sleep
FD_Tick ==
    /\ loop = 0
    /\ daemon_task.pc \in {"created", "sleep"}
    /\ ~daemon_task.cancel
    /\ daemon_task.ticks < MaxTicks
    /\ \E ok \in BOOLEAN : \E S \in SUBSET Flows :
        /\ ok \/ S = {}
        /\ daemon_task' = [daemon_task EXCEPT
                !.pc = "exec", !.ticks = @ + 1,
                !.flows = SortedSeq(S), !.todo = SortedSeq(S),
                !.outcome = [f \in Flows |-> "none"],
                !.attempts = [f \in Flows |-> 0],
                !.fetch_failed = ~ok, !.slept = 0,
                !.prev_failed = daemon_task.fetch_failed
                                \/ \E f \in Flows : daemon_task.outcome[f] = "failed"]
    /\ loop' = DaemonLoop
    /\ UNCHANGED <<delegVars, termVars, inboxVars, health, teardown, lifespan, senderVars, query, sideVars>>

\* FD_Execute with the loop over the flows left at the first failure
FD_Execute_StopsAtFailure ==
    /\ daemon_task.pc = "exec"
    /\ daemon_task.todo # <<>>
    /\ LET f == Head(daemon_task.todo) IN
        \E res \in {"executed", "skipped", "failed"} :
            daemon_task' = [daemon_task EXCEPT
                !.todo = IF res = "failed" THEN <<>> ELSE Tail(@),
                !.outcome[f] = res, !.attempts[f] = @ + 1]
    /\ UNCHANGED <<loop, delegVars, termVars, inboxVars, health, teardown, lifespan, senderVars, query, sideVars>>

\* FD_Execute with a failed flow tried again
FD_Execute_Retries ==
    /\ daemon_task.pc = "exec"
    /\ daemon_task.todo # <<>>
    /\ LET f == Head(daemon_task.todo) IN
        \E res \in {"executed", "skipped", "failed"} :
            daemon_task' = [daemon_task EXCEPT
                !.todo = IF res = "failed" THEN @ ELSE Tail(@),
                !.outcome[f] = res, !.attempts[f] = @ + 1]
    /\ UNCHANGED <<loop, delegVars, termVars, inboxVars, health, teardown, lifespan, senderVars, query, sideVars>>

\* one iteration of `for flow in flows`: flow_service.execute_flow(flow.name)
\* returns True, returns False or raises; the exception is logged
FD_Execute ==
    /\ daemon_task.pc = "exec"
    /\ daemon_task.todo # <<>>
    /\ LET f == Head(daemon_task.todo) IN
        \E res \in {"executed", "skipped", "failed"} :
            daemon_task' = [daemon_task EXCEPT
                !.todo = Tail(@), !.outcome[f] = res, !.attempts[f] = @ + 1]
    /\ UNCHANGED <<loop, delegVars, termVars, inboxVars, health, teardown, lifespan, senderVars, query, sideVars>>

\* FD_Sleep with the sleep skipped after a failed fetch (`continue` in the
\* outer except)
FD_Sleep_SkippedAfterError ==
    /\ daemon_task.pc = "exec"
    /\ daemon_task.todo = <<>>
    /\ daemon_task' = [daemon_task EXCEPT
            !.pc = "sleep",
            !.slept = IF daemon_task.fetch_failed THEN @ ELSE @ + FLOW_PERIOD]
    /\ loop' = 0
    /\ UNCHANGED <<delegVars, termVars, inboxVars, health, teardown, lifespan, senderVars, query, sideVars>>

\* the try block is left (the for loop ended, or the fetch raised and was
\* logged): `await asyncio.sleep(60)` suspends the task
FD_Sleep ==
    /\ daemon_task.pc = "exec"
    /\ daemon_task.todo = <<>>
    /\ daemon_task' = [daemon_task EXCEPT !.pc = "sleep", !.slept = @ + FLOW_PERIOD]
    /\ loop' = 0
    /\ UNCHANGED <<delegVars, termVars, inboxVars, health, teardown, lifespan, senderVars, query, sideVars>>

\* CancelledError is raised into the task at its await: it is no Exception
\* of the try block, which it is outside of anyway, and ends the task
FD_Cancelled ==
    /\ loop = 0
    /\ daemon_task.pc = "sleep"
    /\ daemon_task.cancel
    /\ daemon_task' = [daemon_task EXCEPT !.pc = "cancelled"]
    /\ UNCHANGED <<loop, delegVars, termVars, inboxVars, health, teardown, lifespan, senderVars, query, sideVars>>

\* lifespan after its yield: the observer is stopped and joined, then
\* daemon_task.cancel() and `await daemon_task`. The task was scheduled
\* during startup, before the server took any request, so it has run its
\* first step by now
LS_Shutdown ==
    /\ loop = 0
    /\ lifespan = "running"
    /\ daemon_task.pc # "created"
    /\ inbox_observer' = "stopped"
    /\ daemon_task' = [daemon_task EXCEPT !.cancel = TRUE]
    /\ lifespan' = "awaiting"
    /\ UNCHANGED <<loop, delegVars, termVars, inboxVars, health, teardown, senderVars, query,
                   cleanup, clientVars, wait, stdio, tmux, log_events>>

\* `await daemon_task` raises CancelledError, which lifespan swallows
LS_Stopped ==
    /\ loop = 0
    /\ lifespan = "awaiting"
    /\ daemon_task.pc = "cancelled"
    /\ lifespan' = "stopped"
    /\ UNCHANGED <<loop, delegVars, termVars, inboxVars, health, teardown, daemon_task, senderVars, query, sideVars>>

\* ------------------------------------------- AgentCommunicationClient
\* HandoffRequest / AssignRequest / SendMessageRequest accept the arguments
\* (strings given by their length)
ValidRequest(op, a) ==
    CASE op = "handoff" -> /\ a.agent_profile >= 1 /\ a.message >= 1
                           /\ a.timeout >= TIMEOUT_MIN /\ a.timeout <= TIMEOUT_MAX
      [] op = "assign" -> a.agent_profile >= 1 /\ a.message >= 1
      [] OTHER -> a.message >= 1

\* the dict of assign, and the two dicts of send_message
AssignDict(s, t, m) == [success |-> s, terminal_id |-> t, message |-> m]
SendResponse(s, id, snd, rcv, at, err) ==
    [success |-> s, message_id |-> id, sender_id |-> snd, receiver_id |-> rcv,
     created_at |-> at, error |-> err]
SendDict(r) ==
    IF r.success
    THEN [success |-> r.success, message_id |-> r.message_id, sender_id |-> r.sender_id,
          receiver_id |-> r.receiver_id, created_at |-> r.created_at]
    ELSE [success |-> FALSE, error |-> r.error]

\* what a client method returns for a response body that it could parse
Convert(op, body) ==
    CASE op = "handoff" -> HandoffResponse(body.success, body.message, body.output, body.terminal_id)
      [] op = "assign" -> AssignDict(body.success, body.terminal_id, body.message)
      [] OTHER -> SendDict(body)

\* the failure result of an operation, with the message format fmt
Failure(op, fmt) ==
    CASE op = "handoff" -> HandoffResponse(FALSE, Msg(fmt, 0), OutNone, None)
      [] op = "assign" -> AssignDict(FALSE, None, Msg(fmt, 0))
      [] OTHER -> [success |-> FALSE, error |-> Msg(fmt, 0)]

\* Handle with `except httpx.HTTPError` as the only handler
Handle_OnlyHttpErrors(op, exc) ==
    IF exc \in HTTPErrors THEN [result |-> Failure(op, FmtClientHttpError), raised |-> "none"]
    ELSE [result |-> NoResponse, raised |-> exc]

\* the handlers of a client method: `except httpx.HTTPError`, then
\* `except Exception`; anything else leaves the method
Handle(op, exc) ==
    IF exc \in HTTPErrors THEN [result |-> Failure(op, FmtClientHttpError), raised |-> "none"]
    ELSE IF exc \in Exceptions THEN [result |-> Failure(op, FmtClientError), raised |-> "none"]
    ELSE [result |-> NoResponse, raised |-> exc]

\* the longest a handler can take to answer: for a handoff the bounds of its
\* stages (creation, wait for IDLE, settle delay, wait for COMPLETED with the
\* request's timeout, output request, exit request)
ServerBound(op, T) ==
    IF op = "handoff"
    THEN CREATE_TIMEOUT + IDLE_TIMEOUT + SETTLE_DELAY + T + OUTPUT_TIMEOUT + EXIT_TIMEOUT
    ELSE CREATE_TIMEOUT

\* durations of a handler, in seconds: short, at the client's HTTP timeout,
\* just beyond it, and the bound
Durations(op, T) ==
    {d \in {1, CLIENT_TIMEOUT, CLIENT_TIMEOUT + 1, ServerBound(op, T)} : d <= ServerBound(op, T)}

\* what a handler can have done and answered: for a handoff the results of
\* H_CreateFailed, H_WaitCompleted and H_Return with the terminal they leave
Outcomes(op) ==
    CASE op = "handoff" ->
           {[body |-> HandoffResponse(TRUE, Msg(FmtHandoffOk, 0), OutLast(1), 1), created |-> 1, injected |-> 1],
            [body |-> HandoffResponse(FALSE, Msg(FmtHandoffTimeout, 0), OutNone, 1), created |-> 1, injected |-> 1],
            [body |-> HandoffResponse(FALSE, Msg(FmtCreateFailed, 0), OutNone, None), created |-> 0, injected |-> 0]}
      [] op = "assign" ->
           {[body |-> AssignDict(TRUE, 1, Msg(FmtAssignOk, 1)), created |-> 1, injected |-> 1],
            [body |-> AssignDict(FALSE, None, Msg(FmtAssignFailed, 0)), created |-> 0, injected |-> 0]}
      [] OTHER ->
           {[body |-> SendResponse(TRUE, 1, 1, 1, 1, Msg(FmtNoMessage, 0)), created |-> 0, injected |-> 1],
            [body |-> SendResponse(FALSE, None, None, 1, None, Msg(FmtSendFailed, 0)), created |-> 0, injected |-> 0]}

ClientRest == <<loop, delegVars, termVars, inboxVars, health, teardown, flowVars, senderVars,
                query, bootVars, wait, stdio, tmux, log_events>>

\* the sync wrapper: asyncio.run(...) raises RuntimeError when an event loop
\* is already running in the thread, which the wrapper's `except Exception`
\* turns into its failure result; otherwise the client method runs
SW_Run ==
    /\ client.pc = "called" /\ client.via \in {"wrapper", "wrapper_in_loop"}
    /\ IF client.via = "wrapper_in_loop"
       THEN client' = [client EXCEPT !.pc = "wrapped",
                                     !.result = Handle(client.op, "RuntimeError").result,
                                     !.raised = Handle(client.op, "RuntimeError").raised]
       ELSE client' = [client EXCEPT !.pc = "building"]
    /\ UNCHANGED <<http, ClientRest>>

\* AC_Build without the request model: the arguments are posted as they are
AC_Build_SkipsValidation ==
    /\ client.pc = "building"
    /\ client' = [client EXCEPT !.pc = "posted", !.requests = @ + 1]
    /\ http' = [http EXCEPT !.pc = "sent", !.op = client.op,
                            !.agent_profile = client.agent_profile,
                            !.message = client.message, !.timeout = client.timeout]
    /\ UNCHANGED ClientRest

\* a client method up to its post: the request model is built inside the
\* `try`, so a ValidationError goes to the handlers and nothing is posted
AC_Build ==
    /\ client.pc = "building"
    /\ IF ValidRequest(client.op, client)
       THEN /\ client' = [client EXCEPT !.pc = "posted", !.requests = @ + 1]
            /\ http' = [http EXCEPT !.pc = "sent", !.op = client.op,
                                    !.agent_profile = client.agent_profile,
                                    !.message = client.message, !.timeout = client.timeout]
       ELSE /\ client' = [client EXCEPT !.pc = "returned",
                                        !.result = Handle(client.op, "ValidationError").result,
                                        !.raised = Handle(client.op, "ValidationError").raised]
            /\ UNCHANGED http
    /\ UNCHANGED ClientRest

\* a bare HTTP client posts the arguments as they are
RAW_Post ==
    /\ client.pc = "called" /\ client.via = "raw"
    /\ client' = [client EXCEPT !.pc = "posted", !.requests = @ + 1]
    /\ http' = [http EXCEPT !.pc = "sent", !.op = client.op,
                            !.agent_profile = client.agent_profile,
                            !.message = client.message, !.timeout = client.timeout]
    /\ UNCHANGED ClientRest

\* the request reaches the server, or the connection fails; the framework
\* validates the body against the request model of the handler and answers
\* 422 without calling the handler when it does not fit
SRV_Receive ==
    /\ http.pc = "sent"
    /\ \E up \in BOOLEAN :
        IF ~up
        THEN http' = [http EXCEPT !.pc = "answered", !.reply = [NoReply EXCEPT !.kind = "connect"]]
        ELSE IF ~ValidRequest(http.op, http)
        THEN http' = [http EXCEPT !.pc = "answered",
                         !.reply = [NoReply EXCEPT !.kind = "status", !.status = HTTP_422_UNPROCESSABLE]]
        ELSE http' = [http EXCEPT !.pc = "handling", !.handled = @ + 1]
    /\ UNCHANGED <<client, ClientRest>>

\* the handler runs and returns its response model, after some time within
\* its bounds; or the response is a 500, or a body that is not the model
SRV_Answer ==
    /\ http.pc = "handling"
    /\ \/ \E o \in Outcomes(http.op), d \in Durations(http.op, http.timeout) :
            http' = [http EXCEPT !.pc = "answered", !.duration = d,
                         !.created = o.created, !.injected = o.injected,
                         !.reply = [kind |-> "json", status |-> HTTP_200_OK, body |-> o.body]]
       \/ \E k \in {"status", "garbage"} :
            http' = [http EXCEPT !.pc = "answered", !.duration = 1,
                         !.reply = [NoReply EXCEPT !.kind = k,
                                       !.status = IF k = "status"
                                                  THEN HTTP_500_INTERNAL_SERVER_ERROR
                                                  ELSE HTTP_200_OK]]
    /\ UNCHANGED <<client, ClientRest>>

\* what `await client.post`, raise_for_status and the parse of the body raise
\* for an exchange: httpx gives up when no byte of the response has arrived
\* within self.timeout seconds
ExchangeError(h) ==
    CASE h.reply.kind = "connect" -> "ConnectError"
      [] h.duration > CLIENT_TIMEOUT -> "ReadTimeout"
      [] h.reply.status >= HTTP_400_BAD_REQUEST -> "HTTPStatusError"
      [] h.reply.kind = "garbage" -> "ValidationError"
      [] OTHER -> "none"

\* a client method from its post to its return
AC_Receive ==
    /\ client.pc = "posted" /\ client.via # "raw" /\ http.pc = "answered"
    /\ LET exc == ExchangeError(http) IN
        IF exc = "none"
        THEN client' = [client EXCEPT !.pc = "returned", !.result = Convert(client.op, http.reply.body)]
        ELSE client' = [client EXCEPT !.pc = "returned",
                                      !.result = Handle(client.op, exc).result,
                                      !.raised = Handle(client.op, exc).raised]
    /\ UNCHANGED <<http, ClientRest>>

\* the bare HTTP client reads the status of the response
RAW_Receive ==
    /\ client.pc = "posted" /\ client.via = "raw" /\ http.pc = "answered"
    /\ client' = [client EXCEPT !.pc = "returned"]
    /\ UNCHANGED <<http, ClientRest>>

\* the sync wrapper returns: handoff copies the four fields of the result
\* into a dict, assign and send_message return the client's dict
SW_Return ==
    /\ client.pc = "returned" /\ client.via = "wrapper" /\ client.raised = "none"
    /\ client' = [client EXCEPT !.pc = "wrapped",
                     !.result = IF client.op = "handoff"
                                THEN [success |-> @.success, message |-> @.message,
                                      output |-> @.output, terminal_id |-> @.terminal_id]
                                ELSE @]
    /\ UNCHANGED <<http, ClientRest>>

\* one call of any operation by any caller, with any arguments
InitClient ==
    /\ client \in {[NoClient EXCEPT !.pc = IF via = "client" THEN "building" ELSE "called",
                                     !.op = op, !.via = via, !.agent_profile = p,
                                     !.message = m, !.timeout = t] :
                      op \in Ops, via \in Callers, p \in 0..MaxLen, m \in 0..MaxLen,
                      t \in TimeoutInputs}
    /\ http = NoHttp
    /\ wait = NoWait
    /\ stdio = NoStdio
    /\ ServerIdle

NextClient ==
    \/ SW_Run
    \/ AC_Build
    \/ RAW_Post
    \/ SRV_Receive
    \/ SRV_Answer
    \/ AC_Receive
    \/ RAW_Receive
    \/ SW_Return

SpecClient == InitClient /\ [][NextClient]_vars

\* ------------------------------------------------------- stdio tool servers
\* all sequences over S of length n, and of length up to n
RECURSIVE SeqsOfLen(_, _)
SeqsOfLen(S, n) ==
    IF n = 0 THEN {<<>>}
    ELSE {Append(q, x) : q \in SeqsOfLen(S, n - 1), x \in S}
SeqsUpTo(S, n) == UNION {SeqsOfLen(S, k) : k \in 0..n}

\* json.loads(line.strip())
Loads(line) ==
    CASE line \in {"blank", "invalid"} -> "JSONDecodeError"
      [] line = "unparsable" -> "RecursionError"
      [] OTHER -> "none"

\* HTTPAgentServer.handle_request with the tool it calls: everything is
\* inside try/except Exception. A request that is not an object, names no
\* tool or lacks a required parameter is answered with an error; a complete
\* one awaits the client method, which posts one request
HandleRequest(line) ==
    IF line = "call" THEN [kind |-> "result", posts |-> 1]
    ELSE [kind |-> "error", posts |-> 0]

\* the body of main()'s inner try for a line that json.loads accepted:
\* request.get on a non-object and a wrapper called without its required
\* arguments raise (answered by `except Exception`), an unknown method gets
\* an error as result, and a complete request calls the sync wrapper, whose
\* asyncio.run raises RuntimeError inside the running loop of main() and
\* which returns its failure result without a request
Dispatch(line) ==
    IF line = "call" THEN [kind |-> "result", posts |-> 0]
    ELSE [kind |-> "error", posts |-> 0]

StdioRest == <<loop, delegVars, termVars, inboxVars, health, teardown, flowVars, senderVars,
               query, bootVars, clientVars, wait, tmux, log_events>>

\* the response to line k is printed
Respond(k, r) ==
    stdio' = [stdio EXCEPT !.pos = k, !.out = Append(@, [line |-> k, kind |-> r.kind]),
                           !.requests = @ + r.posts]

\* one turn of the loop: read a line and answer it. run_stdio catches only
\* JSONDecodeError around json.loads: another exception goes to the
\* `except Exception` around the loop, which logs it and ends the loop;
\* main() catches JSONDecodeError and Exception inside the loop
ST_Line ==
    /\ stdio.pc = "reading" /\ stdio.pos < Len(stdio.input)
    /\ LET k == stdio.pos + 1
           line == stdio.input[k]
           exc == Loads(line) IN
        IF exc = "JSONDecodeError" THEN Respond(k, [kind |-> "error", posts |-> 0])
        ELSE IF exc # "none"
        THEN IF stdio.server = "orchestrator"
             THEN stdio' = [stdio EXCEPT !.pos = k, !.pc = "stopped", !.ended = "error"]
             ELSE Respond(k, [kind |-> "error", posts |-> 0])
        ELSE IF stdio.server = "orchestrator" THEN Respond(k, HandleRequest(line))
        ELSE Respond(k, Dispatch(line))
    /\ UNCHANGED StdioRest

\* readline returns "" at the end of the input: `if not line: break`
ST_Eof ==
    /\ stdio.pc = "reading" /\ stdio.pos = Len(stdio.input)
    /\ stdio' = [stdio EXCEPT !.pc = "stopped", !.ended = "eof"]
    /\ UNCHANGED StdioRest

\* KeyboardInterrupt while the loop waits for a line
ST_Interrupt ==
    /\ stdio.pc = "reading"
    /\ stdio' = [stdio EXCEPT !.pc = "stopped", !.ended = "interrupt"]
    /\ UNCHANGED StdioRest

\* either server, started on any input
InitStdio ==
    /\ stdio \in {[NoStdio EXCEPT !.pc = "reading", !.server = s, !.input = i] :
                     s \in Servers, i \in SeqsUpTo(LineKinds, MaxLines)}
    /\ client = NoClient
    /\ http = NoHttp
    /\ wait = NoWait
    /\ ServerIdle

NextStdio ==
    \/ ST_Line
    \/ ST_Eof
    \/ ST_Interrupt

SpecStdio == InitStdio /\ [][NextStdio]_vars

\* --- wait_until_terminal_status(terminal_id, target, timeout, polling_interval)
\* with its clock: read and classify; return True on the target; return False
\* once the timeout has elapsed; otherwise sleep for the interval and read
\* again. A sleep lasts the interval or up to MaxJitter longer.
ceil_div(a, b) == (a + b - 1) \div b

\* WU_Read giving up when the next read would come after the timeout
WU_Read_GivesUpEarly ==
    /\ wait.pc = "read"
    /\ \E observed \in BOOLEAN :
        wait' = [wait EXCEPT
                    !.reads = @ + 1,
                    !.last_read = wait.clock,
                    !.min_gap = IF wait.reads = 0 THEN @
                                ELSE min(@, wait.clock - wait.last_read),
                    !.seen_at = IF observed THEN wait.reads + 1 ELSE @,
                    !.result = IF observed THEN "success"
                               ELSE IF wait.clock + wait.I >= wait.T THEN "failure"
                               ELSE "none",
                    !.pc = IF observed \/ wait.clock + wait.I >= wait.T THEN "done" ELSE "sleep"]
    /\ UNCHANGED <<loop, delegVars, termVars, inboxVars, health, teardown, flowVars, senderVars,
                   query, bootVars, clientVars, stdio, tmux, log_events>>

\* one read of the status: the target ends the wait with success, an elapsed
\* timeout ends it with failure, anything else leads to a sleep
WU_Read ==
    /\ wait.pc = "read"
    /\ \E observed \in BOOLEAN :
        wait' = [wait EXCEPT
                    !.reads = @ + 1,
                    !.last_read = wait.clock,
                    !.min_gap = IF wait.reads = 0 THEN @
                                ELSE min(@, wait.clock - wait.last_read),
                    !.seen_at = IF observed THEN wait.reads + 1 ELSE @,
                    !.result = IF observed THEN "success"
                               ELSE IF wait.clock >= wait.T THEN "failure"
                               ELSE "none",
                    !.pc = IF observed \/ wait.clock >= wait.T THEN "done" ELSE "sleep"]
    /\ UNCHANGED <<loop, delegVars, termVars, inboxVars, health, teardown, flowVars, senderVars,
                   query, bootVars, clientVars, stdio, tmux, log_events>>

\* time.sleep(polling_interval)
WU_Sleep ==
    /\ wait.pc = "sleep"
    /\ \E d \in wait.I..(wait.I + MaxJitter) :
        wait' = [wait EXCEPT !.clock = @ + d, !.pc = "read"]
    /\ UNCHANGED <<loop, delegVars, termVars, inboxVars, health, teardown, flowVars, senderVars,
                   query, bootVars, clientVars, stdio, tmux, log_events>>

\* a call with any timeout and interval, about to make its first read
InitWait ==
    /\ wait \in {[NoWait EXCEPT !.pc = "read", !.T = t, !.I = i, !.min_gap = i + MaxJitter] :
                    t \in 1..MaxTimeout, i \in 1..MaxInterval}
    /\ client = NoClient
    /\ http = NoHttp
    /\ stdio = NoStdio
    /\ ServerIdle

NextWait ==
    \/ WU_Read
    \/ WU_Sleep

SpecWait == InitWait /\ [][NextWait]_vars

\* --- startup: lifespan up to its yield, and the cleanup task
\* lifespan with the sweep awaited: `await asyncio.to_thread(cleanup_old_data)`
LS_Startup_AwaitsCleanup ==
    /\ loop = 0
    /\ lifespan = "starting"
    /\ \E db_ok \in BOOLEAN, sweep_ok \in BOOLEAN :
        IF ~db_ok
        THEN /\ lifespan' = "failed"
             /\ UNCHANGED <<daemon_task, cleanup, inbox_observer>>
        ELSE IF ~sweep_ok
        THEN /\ lifespan' = "failed"
             /\ cleanup' = [state |-> "failed", started |-> cleanup.started + 1]
             /\ UNCHANGED <<daemon_task, inbox_observer>>
        ELSE /\ cleanup' = [state |-> "ok", started |-> cleanup.started + 1]
             /\ daemon_task' = NewDaemon
             /\ inbox_observer' = "started"
             /\ lifespan' = "running"
    /\ UNCHANGED <<loop, delegVars, termVars, inboxVars, health, teardown, senderVars, query,
                   clientVars, wait, stdio, tmux, log_events>>

\* lifespan up to its yield: setup_logging() and init_db(), which may raise;
\* then the cleanup task is created (not awaited, no reference kept), the
\* daemon task is created, and the observer is started. lifespan has no
\* await before the yield, so neither task has run a step when it yields.
LS_Startup ==
    /\ loop = 0
    /\ lifespan = "starting"
    /\ \E db_ok \in BOOLEAN :
        IF ~db_ok
        THEN /\ lifespan' = "failed"
             /\ UNCHANGED <<daemon_task, cleanup, inbox_observer>>
        ELSE /\ cleanup' = [state |-> "created", started |-> cleanup.started + 1]
             /\ daemon_task' = NewDaemon
             /\ inbox_observer' = "started"
             /\ lifespan' = "running"
    /\ UNCHANGED <<loop, delegVars, termVars, inboxVars, health, teardown, senderVars, query,
                   clientVars, wait, stdio, tmux, log_events>>

\* the cleanup task runs its first step: asyncio.to_thread hands
\* cleanup_old_data to a worker thread
CL_Run ==
    /\ loop = 0
    /\ cleanup.state = "created"
    /\ cleanup' = [cleanup EXCEPT !.state = "running"]
    /\ UNCHANGED <<loop, delegVars, termVars, inboxVars, health, teardown, flowVars, senderVars,
                   query, inbox_observer, clientVars, wait, stdio, tmux, log_events>>

\* worker thread: cleanup_old_data returns or raises; the result stays in the
\* task, which nothing awaits
CL_Done ==
    /\ cleanup.state = "running"
    /\ \E r \in {"ok", "failed"} : cleanup' = [cleanup EXCEPT !.state = r]
    /\ UNCHANGED <<loop, delegVars, termVars, inboxVars, health, teardown, flowVars, senderVars,
                   query, inbox_observer, clientVars, wait, stdio, tmux, log_events>>

\* the server takes requests once lifespan has yielded
Serve ==
    /\ lifespan = "running"
    /\ health_check

\* the process before lifespan has run
InitStartup ==
    /\ lifespan = "starting"
    /\ daemon_task = [NewDaemon EXCEPT !.pc = "none"]
    /\ cleanup = [state |-> "none", started |-> 0]
    /\ inbox_observer = "none"
    /\ client = NoClient
    /\ http = NoHttp
    /\ wait = NoWait
    /\ stdio = NoStdio
    /\ tmux = NoTmux
    /\ log_events = {}
    /\ health = 0
    /\ teardown = [c \in Calls |-> FALSE]
    /\ environ = [p \in Processes |-> None]
    /\ tool = NoTool
    /\ query = NoQuery
    /\ CoreIdle

NextStartup ==
    \/ LS_Startup
    \/ CL_Run
    \/ CL_Done
    \/ Serve
    \/ FD_Tick
    \/ FD_Execute
    \/ FD_Sleep

SpecStartup == InitStartup /\ [][NextStartup]_vars

NextFlow ==
    \/ FD_Tick
    \/ FD_Execute
    \/ FD_Sleep
    \/ FD_Cancelled
    \/ LS_Shutdown
    \/ LS_Stopped

SpecFlow == Init /\ [][NextFlow]_vars

\* the loop runs a task that is ready: a cancelled task gets its
\* CancelledError and the lifespan its result
SpecFlowLive == SpecFlow /\ WF_vars(FD_Cancelled) /\ WF_vars(LS_Stopped)

Next ==
    \/ \E c \in Calls : H_Start(c)
    \/ \E c \in Calls : A_Start(c)
    \/ \E c \in Calls : WorkerCreated(c)
    \/ \E c \in Calls : WorkerFailed(c)
    \/ \E c \in Calls : H_Created(c)
    \/ \E c \in Calls : H_CreateFailed(c)
    \/ \E c \in Calls : H_CreateTimeout(c)
    \/ \E c \in Calls : H_JoinReturn(c)
    \/ \E c \in Calls : H_WaitIdle(c)
    \/ \E c \in Calls : H_Send(c)
    \/ \E c \in Calls : H_WaitCompleted(c)
    \/ \E c \in Calls : H_ReadOutput(c)
    \/ \E c \in Calls : H_Exit(c)
    \/ \E c \in Calls : H_Return(c)
    \/ \E c \in Calls : A_Created(c)
    \/ \E c \in Calls : A_CreateFailed(c)
    \/ \E c \in Calls : A_CreateTimeout(c)
    \/ \E c \in Calls : A_JoinReturn(c)
    \/ \E c \in Calls : A_Send(c)
    \/ \E c \in Calls : S_Start(c)
    \/ \E c \in Calls : S_Run(c)
    \/ \E c \in Calls : S_Created(c)
    \/ \E c \in Calls : S_CreateFailed(c)
    \/ \E c \in Calls : S_CreateTimeout(c)
    \/ \E c \in Calls : S_JoinReturn(c)
    \/ health_check
    \/ \E t \in TermIds : AgentStep(t)

Spec == Init /\ [][Next]_vars

\* session creation with sessions that exist before the request
NextSession ==
    \/ TmuxSession
    \/ \E c \in Calls : S_Start(c)
    \/ \E c \in Calls : S_Run(c)
    \/ \E c \in Calls : WorkerCreated(c)
    \/ \E c \in Calls : WorkerFailed(c)
    \/ \E c \in Calls : S_Created(c)
    \/ \E c \in Calls : S_CreateFailed(c)
    \/ \E c \in Calls : S_CreateTimeout(c)
    \/ \E c \in Calls : S_JoinReturn(c)
    \/ health_check
    \/ \E t \in TermIds : AgentStep(t)

SpecSession == Init /\ [][NextSession]_vars

\* the messaging side: terminals 1..MaxReceivers are in the registry, created
\* by earlier requests
InitInbox ==
    /\ AuxIdle
    /\ loop = 0
    /\ kind = [c \in Calls |-> "none"]
    /\ pc = [c \in Calls |-> "idle"]
    /\ terminal_id = [c \in Calls |-> None]
    /\ future = [c \in Calls |-> "none"]
    /\ created = [c \in Calls |-> None]
    /\ polls = [c \in Calls |-> 0]
    /\ output = [c \in Calls |-> OutNone]
    /\ response = [c \in Calls |-> NoResponse]
    /\ stages = [c \in Calls |-> <<>>]
    /\ failed = [c \in Calls |-> {}]
    /\ status = [t \in TermIds |-> IF t \in Receivers THEN "IDLE" ELSE "NONE"]
    /\ inputs = [t \in TermIds |-> <<>>]
    /\ inbox = <<>>
    /\ sm = NoRequest
    /\ cad = [i \in Invokers |-> NoCall]

NextInbox ==
    \/ \E r \in Receivers : SM_Enqueue(r, None)
    \/ SM_CheckAndSend
    \/ SM_Return
    \/ SM_Raise
    \/ \E r \in Receivers : W_Trigger(r)
    \/ W_Return
    \/ \E i \in Invokers : CAD_CheckStatus(i)
    \/ \E i \in Invokers : CAD_Pick(i)
    \/ \E i \in Invokers : CAD_Send(i)
    \/ \E i \in Invokers : CAD_Mark(i)
    \/ \E r \in Receivers : ReceiverStep(r)

SpecInbox == InitInbox /\ [][NextInbox]_vars

\* the observer thread and the loop thread keep running: an event that
\* waits is dispatched, and a handler that has started goes on to its end
SpecInboxLive ==
    /\ SpecInbox
    /\ \A r \in Receivers : WF_vars(W_Trigger(r))
    /\ WF_vars(W_Return)
    /\ \A i \in Invokers :
          WF_vars(CAD_CheckStatus(i) \/ CAD_Pick(i) \/ CAD_Send(i) \/ CAD_Mark(i))
    /\ WF_vars(SM_CheckAndSend \/ SM_Return \/ SM_Raise)

TypeOK ==
    /\ loop \in (0..MaxCalls) \cup {SendMessageLoop, DaemonLoop}
    /\ health \in 0..MaxPings
    /\ daemon_task.ticks \in 0..MaxTicks
    /\ lifespan \in {"starting", "failed", "running", "awaiting", "stopped"}
    /\ cleanup.state \in {"none", "created", "running", "ok", "failed"}
    /\ inbox_observer \in {"none", "started", "stopped"}
    /\ environ \in [Processes -> EnvValues]
    /\ \A m \in 1..Len(inbox) : inbox[m].sender_id \in SenderIds \cup {Unknown}
    /\ kind \in [Calls -> {"none", "handoff", "assign", "session"}]
    /\ terminal_id \in [Calls -> 0..(MaxTerminals + 1)]
    /\ future \in [Calls -> {"none", "running", "ok", "err"}]
    /\ polls \in [Calls -> 0..MaxPolls]
    /\ status \in [TermIds -> Statuses \cup {"NONE"}]
    /\ Len(inbox) <= MaxMessages
    /\ \A i \in Invokers : cad[i].picked \in 0..MaxMessages

\* ================================================================ claims
IsPrefix(s, t) == Len(s) <= Len(t) /\ \A k \in 1..Len(s) : s[k] = t[k]
Front(s) == SubSeq(s, 1, Len(s) - 1)
Has(s, e) == \E k \in 1..Len(s) : s[k] = e
Count(s, e) == Cardinality({k \in 1..Len(s) : s[k] = e})
HandoffDone(c) == kind[c] = "handoff" /\ pc[c] = "done"
AssignDone(c) == kind[c] = "assign" /\ pc[c] = "done"

\* the stages of spec 4.4, with the reports of the two waits
Chain == <<"create", "wait_idle", "idle_reported", "settle", "send",
           "wait_completed", "completed_reported", "read", "exit">>

\* C1: the stages of a handoff are executed in the fixed order create, wait
\* IDLE, settle, send input, wait COMPLETED, read output, exit, return: at any
\* moment the stages executed so far are an initial part of that chain,
\* followed by the return once the handler has returned. So the task is
\* injected only after the wait reported IDLE, the output is read only after
\* the wait reported COMPLETED, and no stage is repeated or out of order.
C1_StagesInOrder ==
    \A c \in Calls : kind[c] = "handoff" =>
        LET st == stages[c] IN
        IF pc[c] = "done"
        THEN st # <<>> /\ st[Len(st)] = "return" /\ IsPrefix(Front(st), Chain)
        ELSE IsPrefix(st, Chain)

\* a handoff that ran the whole chain
C1_Witness == \E c \in Calls : HandoffDone(c) /\ stages[c] = Chain \o <<"return">>

\* C2: whenever a stage of a handoff fails, the handoff returns success=false
\* and the failed stage is the last one executed.
C2_AnyFailureReturnsFailure ==
    \A c \in Calls : (HandoffDone(c) /\ failed[c] # {}) =>
        /\ ~response[c].success
        /\ stages[c][Len(stages[c]) - 1] \in failed[c]

\* C3: a handoff that returns success=false after a terminal was created for
\* it reports the id of that terminal.
C3_FailureKeepsTerminalId ==
    \A c \in Calls : (HandoffDone(c) /\ ~response[c].success /\ created[c] # None) =>
        response[c].terminal_id = created[c]

\* C4: an assign that fails after its terminal was allocated reports the id
\* of that terminal.
C4_AssignFailureKeepsTerminalId ==
    \A c \in Calls : (AssignDone(c) /\ ~response[c].success /\ terminal_id[c] # None) =>
        response[c].terminal_id = terminal_id[c]

\* C5: a handoff whose wait for IDLE ended without IDLE being reported
\* returns success=false, the "did not reach IDLE status" message, no output
\* and the id of the created terminal, and has injected nothing into it.
C5_IdleTimeout ==
    \A c \in Calls :
        (HandoffDone(c) /\ Has(stages[c], "wait_idle") /\ ~Has(stages[c], "idle_reported")) =>
            /\ ~response[c].success
            /\ response[c].message.fmt = FmtIdleTimeout
            /\ response[c].message.arg = created[c]
            /\ response[c].output = OutNone
            /\ response[c].terminal_id # None
            /\ response[c].terminal_id = created[c]
            /\ inputs[created[c]] = <<>>

C5_Witness ==
    \E c \in Calls : HandoffDone(c) /\ Has(stages[c], "wait_idle")
                     /\ ~Has(stages[c], "idle_reported") /\ status[created[c]] # "IDLE"

\* C6: a successful assign has executed create and one injection and nothing
\* else (no status read, no wait), and the terminal_id it returns is the
\* terminal it created, which has received the task exactly once.
C6_AssignCreateThenSend ==
    \A c \in Calls : (AssignDone(c) /\ response[c].success) =>
        /\ stages[c] = <<"create", "send", "return">>
        /\ polls[c] = 0
        /\ created[c] # None
        /\ response[c].terminal_id = created[c]
        /\ Count(inputs[created[c]], TaskText(c)) = 1
        /\ \A t \in TermIds \ {created[c]} : Count(inputs[t], TaskText(c)) = 0

\* the assign returned while its terminal was still INITIALIZING
C6_Witness ==
    \E c \in Calls : AssignDone(c) /\ response[c].success
                     /\ status[created[c]] = "INITIALIZING"

\* C7: every send-message call persists exactly one new pending row for its
\* receiver and then makes exactly one check_and_send_pending_messages call,
\* for that receiver, before it returns.
C7_Inv ==
    /\ Len(inbox) = sm.n
    /\ sm.pc # "idle" =>
        /\ sm.message_id = Len(inbox)
        /\ inbox[sm.message_id].receiver_id = sm.receiver
    /\ sm.pc = "enqueued" => sm.trace = <<[op |-> "enqueue", receiver |-> sm.receiver]>>
    /\ sm.pc \in {"delivering", "done"} =>
        sm.trace = <<[op |-> "enqueue", receiver |-> sm.receiver],
                     [op |-> "check_and_send", receiver |-> sm.receiver]>>
    /\ cad["request"].pc # "idle" <=> sm.pc = "delivering"
    /\ cad["request"].pc # "idle" => cad["request"].receiver = sm.receiver

C7_Step ==
    Len(inbox') # Len(inbox) =>
        /\ Len(inbox') = Len(inbox) + 1
        /\ SubSeq(inbox', 1, Len(inbox)) = inbox
        /\ inbox'[Len(inbox')].status = "pending"
        /\ inbox'[Len(inbox')].receiver_id = sm'.receiver
        /\ sm'.pc = "enqueued"

Older(m) == {k \in 1..(m - 1) : inbox[k].receiver_id = inbox[m].receiver_id}

\* the inbox rows injected into terminal r, in order of injection
Delivered(r) == inputs[r]

\* C8: per receiver, the order of delivery equals the creation order: a row
\* never leaves pending while an older row of the same receiver is pending,
\* and a row is never injected for the first time after a newer row of the
\* same receiver was injected.
C8_DeliveryInCreationOrder ==
    /\ \A m \in 1..Len(inbox) : inbox[m].status # "pending" =>
          \A k \in Older(m) : inbox[k].status # "pending"
    /\ \A r \in Receivers : \A j, k \in 1..Len(Delivered(r)) :
          (j < k /\ Delivered(r)[k].ref < Delivered(r)[j].ref) =>
              \E h \in 1..(j - 1) : Delivered(r)[h] = Delivered(r)[k]

\* C9: one check_and_send_pending_messages call changes the status of at
\* most one row and injects at most once; the row is the oldest pending row
\* of the receiver; a call that found the receiver not IDLE changes and
\* injects nothing.
C9_OnePerInvocation ==
    \A i \in Invokers :
        /\ Cardinality(cad[i].changed) <= 1
        /\ cad[i].injected <= 1
        /\ cad[i].changed \subseteq {cad[i].picked}
        /\ (cad[i].pc \notin {"idle", "check"} /\ ~cad[i].sawIdle) =>
              (cad[i].pc = "end" /\ cad[i].picked = 0 /\ cad[i].injected = 0
               /\ cad[i].changed = {})
        /\ cad[i].picked # 0 =>
              /\ inbox[cad[i].picked].receiver_id = cad[i].receiver
              /\ \A k \in Older(cad[i].picked) : inbox[k].status # "pending"
        /\ (cad[i].pc = "end" /\ cad[i].picked # 0) =>
              inbox[cad[i].picked].status # "pending"

\* a call has delivered the oldest row and ended while a newer row of the
\* same receiver is still pending
C9_Witness ==
    \E i \in Invokers :
        /\ cad[i].pc = "end" /\ cad[i].changed = {cad[i].picked} /\ cad[i].injected = 1
        /\ \E m \in Pending(cad[i].receiver) : m > cad[i].picked

\* C10: under any interleaving of the two invokers, the text of a message
\* is injected into its receiver at most once.
C10_InjectedAtMostOnce ==
    \A r \in Receivers : \A m \in 1..Len(inbox) : Count(inputs[r], InboxText(m)) <= 1

\* a handoff in one of its two waits
Waiting(c) == kind[c] = "handoff" /\ pc[c] \in {"waiting_idle", "waiting_completed"}

\* the serving loop can take up a request now: a health request that is
\* still to come, or the next delegation request
CanServe ==
    /\ health < MaxPings => ENABLED health_check
    /\ \A d \in Calls : (pc[d] = "idle" /\ \A e \in Calls : e < d => pc[e] # "idle") =>
          ENABLED H_Start(d)

\* C11: while a handoff is in its wait for IDLE or its wait for COMPLETED,
\* the serving loop can start and complete other requests (a health request,
\* another handoff): the wait blocks only the handoff that is waiting.
C11_WaitDoesNotBlockLoop ==
    \A c \in Calls : Waiting(c) => CanServe

\* a creation call that ran into its time bound while the worker hangs
HungCreation(c) == kind[c] \in {"handoff", "assign"} /\ pc[c] = "joining" /\ future[c] = "running"

\* C12: when the creation call of a handoff or assign hangs beyond its 30 s
\* bound, the handler can return its timeout failure and the serving loop can
\* serve other requests without the worker finishing first.
C12_HungCreationDoesNotBlock ==
    \A c \in Calls : HungCreation(c) =>
        /\ ENABLED (H_JoinReturn(c) \/ A_JoinReturn(c))
        /\ CanServe

\* the creation call of c exceeded its bound
CreationTimedOut(c) ==
    \/ pc[c] = "joining"
    \/ pc[c] = "done" /\ response[c].message.fmt \in {FmtCreateTimeout, FmtAssignTimeout}

\* C13: whenever a creation call exceeded its bound (handoff, assign or
\* background session initialization), a teardown of the session was
\* attempted, and a handoff or assign that has returned reports a failure.
C13_TimeoutTearsDown ==
    \A c \in Calls : CreationTimedOut(c) =>
        /\ teardown[c]
        /\ pc[c] = "done" => ~response[c].success

\* the flows returned by the eligibility fetch of the current tick
Fetched == {daemon_task.flows[k] : k \in 1..Len(daemon_task.flows)}
Remaining == {daemon_task.todo[k] : k \in 1..Len(daemon_task.todo)}
TickOver == daemon_task.pc \in {"sleep", "cancelled"}

\* C14: a flow that fails does not keep the remaining flows of the tick from
\* being executed: while the tick runs, the flows still to be executed are
\* exactly the fetched flows not yet attempted, and when it is over every
\* fetched flow has been attempted. Neither a failed flow nor a failed fetch
\* ends the daemon: it goes to its sleep, and unless it is cancelled the
\* next tick can start.
C14_FailureStopsNothing ==
    /\ daemon_task.pc = "exec" =>
          Remaining = {f \in Fetched : daemon_task.outcome[f] = "none"}
    /\ TickOver => \A f \in Fetched : daemon_task.outcome[f] # "none"
    /\ (daemon_task.fetch_failed \/ \E f \in Flows : daemon_task.outcome[f] = "failed") =>
          (daemon_task.pc \in {"exec", "sleep"} \/ daemon_task.cancel)
    /\ (daemon_task.pc = "sleep" /\ ~daemon_task.cancel /\ daemon_task.ticks < MaxTicks) =>
          ENABLED FD_Tick

\* the tick after a tick with a failure: its first flow failed, a later one
\* was executed
C14_Witness ==
    /\ daemon_task.prev_failed /\ TickOver
    /\ \E f, g \in Fetched : f < g /\ daemon_task.outcome[f] = "failed"
                             /\ daemon_task.outcome[g] = "executed"

\* C15: in each tick, a flow is attempted at most once, only if the fetch of
\* the tick returned it, and once the tick is over every flow the fetch
\* returned has been attempted exactly once.
C15_EachFetchedFlowOnce ==
    /\ \A f \in Flows : daemon_task.attempts[f] <= 1
    /\ \A f \in Flows \ Fetched : daemon_task.attempts[f] = 0
    /\ TickOver => \A f \in Fetched : daemon_task.attempts[f] = 1

\* a tick whose fetch returned some flows and not others is over
C15_Witness ==
    /\ TickOver /\ Fetched # {} /\ Fetched # Flows
    /\ \A f \in Flows : daemon_task.attempts[f] = IF f \in Fetched THEN 1 ELSE 0

\* C16: the daemon ends only when it was cancelled; the cancellation is
\* requested, and takes effect, only while the daemon is in its sleep between
\* two ticks; on shutdown the lifespan cancels the daemon and its wait for the
\* daemon ends.
C16_Inv ==
    /\ daemon_task.pc = "cancelled" => daemon_task.cancel
    /\ daemon_task.cancel <=> lifespan # "running"
    /\ lifespan = "stopped" => daemon_task.pc = "cancelled"

C16_Step ==
    /\ (daemon_task'.cancel /\ ~daemon_task.cancel) =>
          (daemon_task.pc = "sleep" /\ daemon_task'.pc = "sleep")
    /\ (daemon_task'.pc = "cancelled" /\ daemon_task.pc # "cancelled") =>
          daemon_task.pc = "sleep"

C16_EndsOnlyByCancel ==
    /\ []C16_Inv
    /\ [][C16_Step]_vars
    /\ (lifespan = "awaiting") ~> (lifespan = "stopped")

\* the shutdown completed after the daemon had run a tick with flows
C16_Witness ==
    /\ lifespan = "stopped" /\ daemon_task.pc = "cancelled" /\ Fetched # {}

\* C17: every eligibility fetch but the first follows exactly one sleep of
\* the fixed period since the fetch before, whether or not the tick before
\* had a failure.
C17_Inv ==
    /\ daemon_task.slept \in {0, FLOW_PERIOD}
    /\ daemon_task.pc \in {"sleep", "cancelled"} => daemon_task.slept = FLOW_PERIOD
    /\ daemon_task.pc = "exec" => daemon_task.slept = 0

C17_Step ==
    daemon_task'.ticks # daemon_task.ticks =>
        /\ daemon_task'.ticks = daemon_task.ticks + 1
        /\ IF daemon_task.ticks = 0 THEN daemon_task.slept = 0
           ELSE daemon_task.slept = FLOW_PERIOD

C17_OneSleepBetweenFetches == []C17_Inv /\ [][C17_Step]_vars

\* a fetch was made after a tick in which the fetch failed
C17_Witness ==
    /\ daemon_task.ticks >= 2 /\ daemon_task.prev_failed /\ daemon_task.pc = "exec"

C19_EnvironNeverChanges == [][environ' = environ]_vars

\* C20: for every integer limit the store is queried with the limit brought
\* into 1..100 (1 below 1, 100 above 100, the limit itself otherwise); the
\* response holds at most that many messages, so at most 100 for limit=150
\* and at most 1 for limit=0, and its total is the number of messages in it.
C20_LimitClamped ==
    (query.pc = "done" /\ query.http_status = HTTP_200_OK) =>
        /\ query.used = (CASE query.limit < 1 -> 1
                           [] query.limit > 100 -> 100
                           [] OTHER -> query.limit)
        /\ Len(query.messages) <= query.used
        /\ query.limit = 150 => Len(query.messages) <= 100
        /\ query.limit = 0 => Len(query.messages) <= 1
        /\ query.total = Len(query.messages)

\* limit=150 on a receiver with more than 100 rows returned 100 messages
C20_Witness ==
    /\ query.pc = "done" /\ query.limit = 150 /\ query.rows > 100
    /\ query.total = 100 /\ Len(query.messages) = 100

\* C21: a request whose status is none of pending, delivered, failed, all (in
\* any letter case) is answered with HTTP 400, not 404 and not 500, and reads
\* no messages; status=all and an absent status read with no filter, the
\* three status values read with that filter.
C21_InvalidStatusIs400 ==
    query.pc = "done" =>
        LET given == query.status # <<>> /\ query.status[1] # ""
            word == IF given THEN lower(query.status[1]) ELSE "all" IN
        IF word \in {"pending", "delivered", "failed", "all"}
        THEN /\ query.http_status = HTTP_200_OK
             /\ query.reads = 1
             /\ query.filter = IF word = "all" THEN <<>> ELSE <<word>>
        ELSE /\ query.http_status = HTTP_400_BAD_REQUEST
             /\ query.http_status \notin {HTTP_404_NOT_FOUND, HTTP_500_INTERNAL_SERVER_ERROR}
             /\ query.reads = 0

\* a request to POST /sessions has been answered
SessionAnswered(c) == kind[c] = "session"

\* C22: POST /sessions is answered 202 with status "initializing" before the
\* creation has started (so without waiting for it); each request has exactly
\* one background creation, submitted after the answer; and whatever the
\* background creation does (completes, fails, times out), the answer that
\* was returned stays as it was.
C22_Inv ==
    \A c \in Calls : SessionAnswered(c) =>
        /\ response[c].http_status = HTTP_202_ACCEPTED
        /\ response[c].status = "initializing"
        /\ stages[c][1] = "return"
        /\ Count(stages[c], "create") = (IF pc[c] = "scheduled" THEN 0 ELSE 1)
        /\ pc[c] = "scheduled" => future[c] = "none"

C22_Step ==
    \A c \in Calls : SessionAnswered(c) => response'[c] = response[c]

C22_AnsweredBeforeCreation == []C22_Inv /\ [][C22_Step]_vars

\* a session whose background creation failed, and one whose creation timed
\* out, after the 202 was returned
C22_Witness ==
    \E c \in Calls :
        /\ SessionAnswered(c) /\ pc[c] = "done" /\ "create" \in failed[c]
        /\ teardown[c] /\ response[c].status = "initializing"

\* a handoff that returned a failure of a wait or of the send, its terminal
\* having been created
FailedAfterCreation(c) ==
    /\ HandoffDone(c) /\ terminal_id[c] # None
    /\ failed[c] \cap {"wait_idle", "send", "wait_completed"} # {}

\* C27: a handoff that fails at a wait or at the send, after its terminal was
\* created, issues no exit request and sends no exit command for that
\* terminal and does not delete it: the terminal stays registered, with
\* nothing injected but what the steps before the failure injected.
C27_NoExitAfterFailure ==
    \A c \in Calls : FailedAfterCreation(c) =>
        /\ ~Has(stages[c], "exit")
        /\ \A k \in 1..Len(inputs[terminal_id[c]]) : inputs[terminal_id[c]][k].kind # "exit"
        /\ status[terminal_id[c]] # "NONE"
        /\ Len(inputs[terminal_id[c]]) = Count(stages[c], "send") - Cardinality(failed[c] \cap {"send"})

\* a handoff timed out in its wait for COMPLETED; its terminal holds the task
C27_Witness ==
    \E c \in Calls :
        /\ FailedAfterCreation(c) /\ "wait_completed" \in failed[c]
        /\ Len(inputs[terminal_id[c]]) = 1 /\ status[terminal_id[c]] # "NONE"

\* C24: a handoff or assign handler in which a delegation step failed (the
\* creation, a wait, the send, the read of the output, the exit request) has
\* returned a structured result that says success=false and carries a message;
\* no failure leaves the handler in another way.
C24_FailureIsStructured ==
    \A c \in Calls : ((HandoffDone(c) \/ AssignDone(c)) /\ failed[c] # {}) =>
        /\ response[c].success = FALSE
        /\ response[c].message.fmt # FmtNoMessage

\* C26: the cleanup sweep is started once per process start, by the startup
\* itself, and startup neither waits for it nor fails with it: when lifespan
\* has yielded, the sweep has been started exactly once, the flow daemon task
\* exists and the inbox watcher runs, and the server can take a request when
\* the loop is free, whether the sweep has not run yet, runs, succeeded or
\* failed; a startup that failed did so before the sweep was started.
C26_SweepNeverBlocksStartup ==
    /\ cleanup.started <= 1
    /\ lifespan = "starting" => (cleanup.started = 0 /\ ENABLED LS_Startup)
    /\ lifespan = "failed" => cleanup.started = 0
    /\ lifespan = "running" =>
        /\ cleanup.started = 1
        /\ daemon_task.pc # "none"
        /\ inbox_observer = "started"
        /\ (loop = 0 /\ health < MaxPings) => ENABLED Serve

\* the sweep failed; the server answered a request and the daemon ran a tick
C26_Witness ==
    /\ lifespan = "running" /\ cleanup.state = "failed" /\ cleanup.started = 1
    /\ health >= 1 /\ daemon_task.ticks >= 1 /\ inbox_observer = "started"

\* C25: a wait with timeout T and interval I returns success at the first
\* read that observes the target (no read follows it); it returns failure
\* only when T has elapsed, never earlier, and only if no read observed the
\* target; two reads are never less than I apart; and a call makes at most
\* ceil(T/I)+1 reads.
C25_WaitKeepsItsBounds ==
    wait.pc # "idle" =>
        /\ wait.result = "success" <=> wait.seen_at # 0
        /\ wait.seen_at # 0 => (wait.reads = wait.seen_at /\ wait.pc = "done")
        /\ wait.result = "failure" => (wait.clock >= wait.T /\ wait.seen_at = 0)
        /\ wait.reads >= 2 => wait.min_gap >= wait.I
        /\ wait.reads <= ceil_div(wait.T, wait.I) + 1

\* waitUntil(id, IDLE, timeout=5, interval=1) on a terminal that never
\* reaches IDLE: failure after 5 s and 6 reads
C25_Witness ==
    /\ wait.T = 5 /\ wait.I = 1 /\ wait.result = "failure"
    /\ wait.clock = 5 /\ wait.reads = 6

\* a handoff whose arguments the HandoffRequest model rejects
InvalidHandoff ==
    /\ client.pc # "idle" /\ client.op = "handoff"
    /\ ~ValidRequest("handoff", client)

\* C23: a handoff request with a timeout outside 1..3600 or an empty
\* agent_profile or message has no effect: on the server the handler is not
\* called, no terminal is created and no input is sent; and the client's
\* handoff (and its sync wrapper) issues no HTTP request and returns
\* success=false.
C23_InvalidHandoffHasNoEffect ==
    InvalidHandoff =>
        /\ http.handled = 0 /\ http.created = 0 /\ http.injected = 0
        /\ (http.pc = "answered" /\ http.reply.kind # "connect") =>
              http.reply.status = HTTP_422_UNPROCESSABLE
        /\ client.via # "raw" =>
            /\ client.requests = 0
            /\ client.pc \in {"returned", "wrapped"} => client.result.success = FALSE

\* the client's handoff returned success=false for timeout=3601 without a
\* request
C23_Witness ==
    /\ InvalidHandoff /\ client.via = "client" /\ client.timeout = TIMEOUT_MAX + 1
    /\ client.agent_profile = 1 /\ client.message = 1
    /\ client.pc = "returned" /\ client.result.success = FALSE /\ client.requests = 0

\* the server handler of the client's handoff has returned its response, and
\* the client has returned too
HandoffAnswered ==
    /\ client.op = "handoff" /\ client.via \in {"client", "wrapper"}
    /\ client.timeout >= TIMEOUT_MIN /\ client.timeout <= TIMEOUT_MAX
    /\ http.pc = "answered" /\ http.reply.kind = "json"
    /\ client.pc \in {"returned", "wrapped"}

\* C28: for every handoff timeout T in 1..3600, whenever the server finishes
\* the handoff (within creation bound + IDLE bound + settle + T and its two
\* last requests), the client's handoff returns the server's result: the same
\* success, message, output and terminal_id; it does not give up on its own
\* HTTP timeout with terminal_id=null.
C28_ClientWaitsForServer ==
    HandoffAnswered =>
        /\ client.result.success = http.reply.body.success
        /\ client.result.message = http.reply.body.message
        /\ client.result.output = http.reply.body.output
        /\ client.result.terminal_id = http.reply.body.terminal_id

\* the failure shape of each operation
FailureFields(op) ==
    CASE op = "handoff" -> {"success", "message", "output", "terminal_id"}
      [] op = "assign" -> {"success", "terminal_id", "message"}
      [] OTHER -> {"success", "error"}

\* the exchange of the call went through: one request, answered in time with
\* a response model
ExchangeOk ==
    /\ client.requests = 1 /\ http.pc = "answered" /\ http.reply.kind = "json"
    /\ http.duration <= CLIENT_TIMEOUT

\* C29: no exception leaves a client method or a sync wrapper; a call that
\* met an HTTP error, a validation error or another exception has returned
\* the failure result of its operation (success=false, the operation's
\* fields, no terminal id); a call whose exchange went through has returned
\* the server's success, terminal_id or message_id, and message.
C29_ClientNeverRaises ==
    client.via # "raw" =>
        /\ client.raised = "none"
        /\ client.pc \in {"returned", "wrapped"} =>
            IF ExchangeOk
            THEN LET body == http.reply.body IN
                 /\ client.result.success = body.success
                 /\ client.op \in {"handoff", "assign"} =>
                       /\ client.result.terminal_id = body.terminal_id
                       /\ client.result.message = body.message
                 /\ (client.op = "send_message" /\ body.success) =>
                       client.result.message_id = body.message_id
                 /\ (client.op = "send_message" /\ ~body.success) =>
                       client.result.error = body.error
            ELSE /\ client.result.success = FALSE
                 /\ DOMAIN client.result = FailureFields(client.op)
                 /\ client.op \in {"handoff", "assign"} => client.result.terminal_id = None

\* the sync wrapper of handoff returned the server's success with its
\* terminal; and a call failed on a validation error
C29_Witness ==
    /\ client.via = "wrapper" /\ client.op = "handoff" /\ client.pc = "wrapped"
    /\ ExchangeOk /\ client.result.success /\ client.result.terminal_id = 1

\* the lines read so far that are not a complete request
Faulty(k) == stdio.input[k] # "call"

\* C30: each stdio server has written exactly one response line for every
\* line it has read, in the order of the input; the response to a line that
\* is not valid JSON, names an unknown tool or method, or lacks a required
\* parameter is an error, written without an HTTP request; and the loop has
\* ended only at the end of the input or on an interrupt.
C30_OneResponsePerLine ==
    stdio.pc # "idle" =>
        /\ Len(stdio.out) = stdio.pos
        /\ \A k \in 1..Len(stdio.out) :
              /\ stdio.out[k].line = k
              /\ Faulty(k) => stdio.out[k].kind = "error"
        /\ stdio.requests <= Cardinality({k \in 1..stdio.pos : ~Faulty(k)})
        /\ stdio.ended \in {"none", "eof", "interrupt"}
        /\ stdio.ended = "eof" => stdio.pos = Len(stdio.input)

\* C31: the stdio server main() of cli_agent_manager, which calls the sync
\* wrappers from inside its running event loop, has issued exactly one HTTP
\* request for every complete handoff, assign or send_message line it has
\* answered, and has answered each of them with a result under its id.
C31_ManagerPostsOncePerCall ==
    (stdio.server = "manager" /\ stdio.pc # "idle") =>
        /\ stdio.requests = Cardinality({k \in 1..stdio.pos : ~Faulty(k)})
        /\ \A k \in 1..Len(stdio.out) : ~Faulty(k) => stdio.out[k].kind = "result"

\* C32: once the background creation of a POST /sessions request has
\* succeeded, the terminal it created has exactly the terminal_id that the
\* response of the request returned.
C32_ResponseNamesCreatedTerminal ==
    \A c \in Calls :
        (kind[c] = "session" /\ future[c] = "ok" /\ created[c] # None) =>
            response[c].terminal_id = created[c]

\* C35: when the sync send_message wrapper returns, on the success path and
\* on every failure path, TRON_TERMINAL_ID has the value it had before the
\* call (absent when it was absent), whatever that value was and whether or
\* not a sender_id was supplied.
C35_EnvironRestored ==
    [][(tool.pc = "responded" /\ tool'.pc = "idle") =>
           environ'["tools"] = tool.original_sender]_vars

\* the position of the first occurrence of e in s, 0 if there is none
IndexOf(s, e) ==
    IF Has(s, e) THEN CHOOSE k \in 1..Len(s) : s[k] = e /\ \A j \in 1..(k - 1) : s[j] # e
    ELSE 0

\* C34: a handoff that returned success=true has injected its task exactly
\* once, into the terminal created for it and into no other; both waits
\* reported their status, COMPLETED before the output was read; no wait
\* failed or timed out; and the response carries the id of that terminal.
C34_SuccessMeansCompleted ==
    \A c \in Calls : (HandoffDone(c) /\ response[c].success) =>
        /\ created[c] # None
        /\ response[c].terminal_id = created[c]
        /\ Count(inputs[created[c]], TaskText(c)) = 1
        /\ \A t \in TermIds \ {created[c]} : Count(inputs[t], TaskText(c)) = 0
        /\ Has(stages[c], "idle_reported")
        /\ Has(stages[c], "completed_reported")
        /\ IndexOf(stages[c], "send") < IndexOf(stages[c], "completed_reported")
        /\ IndexOf(stages[c], "completed_reported") < IndexOf(stages[c], "read")
        /\ failed[c] \cap {"create", "wait_idle", "send", "wait_completed"} = {}

\* a handoff returned success=true although the read of the output failed,
\* after its terminal had been seen COMPLETED
C34_Witness ==
    \E c \in Calls : /\ HandoffDone(c) /\ response[c].success
                     /\ "read" \in failed[c]
                     /\ Has(stages[c], "completed_reported")
                     /\ Count(inputs[created[c]], TaskText(c)) = 1

\* C36: a send-message call that answered success=false has persisted no
\* row, and a call that persisted a row has answered success=true with the
\* id of that row, also when its delivery attempt failed.
C36_FailureMeansNothingPersisted ==
    (sm.pc = "done" /\ sm.message_id # 0) =>
        /\ sm.success
        /\ sm.returned = sm.message_id

\* C33: the failure cleanup of a background session initialization never
\* kills a multiplexer session that existed before the POST /sessions
\* request was made.
C33_CleanupSparesOlderSessions ==
    \A c \in Calls : tmux.killed[c] => ~tmux.existed[c]

\* row m exists, is addressed to r and is pending
IsPending(m, r) ==
    m <= Len(inbox) /\ inbox[m].receiver_id = r /\ inbox[m].status = "pending"

\* C37: while the watcher runs, every pending message of a receiver that is
\* IDLE infinitely often is eventually delivered or marked failed, also
\* when the receiver makes no status transition after an older message of
\* its queue left pending: in particular, a message of a receiver that from
\* some moment on stays IDLE does not stay pending forever.
C37_PendingEventuallyLeaves ==
    \A r \in Receivers : \A m \in 1..MaxMessages :
        (<>[](status[r] = "IDLE")) => (IsPending(m, r) ~> ~IsPending(m, r))

====
